---- MODULE Spec2Model ----
(***************************************************************************)
(* Approach-speed calculator (Mooney M20J VREF calculator).                *)
(*                                                                         *)
(* Part 1: the performance interpolator of CalculatorSection.tsx           *)
(*         (interpolate, useAircraftPerformance, SpeedResults, DmmsCard).  *)
(*                                                                         *)
(* JavaScript Numbers are modelled as extended rationals [n, d]: d > 0 is  *)
(* the finite value n/d in lowest terms, d = 0 is Infinity (n = 1),        *)
(* -Infinity (n = -1) or NaN (n = 0).  Arithmetic is exact: the rounding   *)
(* of IEEE-754 doubles is not modelled.  A missing property of an object   *)
(* (undefined) is a key outside the DOMAIN of the function modelling it.   *)
(* JavaScript strings are TLA+ strings (Len, \o and SubSeq, 1-based).      *)
(***************************************************************************)
EXTENDS Integers, Sequences, FiniteSets, TLC

VARIABLES
    profile,      \* CalculatorSection: the AircraftProfile prop
    weight,       \* CalculatorSection: the weight prop (a Number)
    gustFactor,   \* CalculatorSection: the gustFactor prop (a Number)
    perf,         \* what SpeedResults got from useAircraftPerformance, or NotRendered
    card,         \* what DmmsCard got from useAircraftPerformance, or NotRendered
    text,         \* weatherService: the text given to extractGust
    gust,         \* weatherService: what extractGust returned, or NotRun
    content,      \* handleFetch: the page given to parseTaf as rawHtml
    stationCode,  \* handleFetch: the station code given to parseTaf as code
    parsedTaf,    \* handleFetch: what parseTaf returned, or NotParsed
    tafData,      \* WeatherSection: the tafData state
    now,          \* WeatherSection: new Date() at the render, in hours
    forecast,     \* WeatherSection: the activeTafIndex and the localTime of every
                  \* entry of the rendered forecast, or NotRendered
    icao,         \* WeatherSection: the icao state (the input field)
    loading,      \* WeatherSection: the loading state
    metarText,    \* WeatherSection: the metarText state
    resultStatus, \* WeatherSection: the resultStatus state, a WeatherResult or Null
    pending,      \* the calls of handleFetch that wait for fetchProxyWeather, each
                  \* with its number, its code and whether another call was
                  \* waiting at the same time
    issued,       \* the number of requests sent so far
    finished,     \* history: the calls of handleFetch that have finished, in the
                  \* order they finished in, each with the response it got
    profiles,         \* App: the profiles state
    activeProfileId,  \* App: the activeProfileId state
    isCreating,       \* ProfileManager: the isCreating state (the wizard is shown)
    wiz,              \* ProfileManager: the wiz state
    msNow,            \* the milliseconds Date.now() has advanced by so far
    refAtFinish       \* history: for the id of every profile the wizard has made, the
                      \* id of the column that was marked isRef when Finish was pressed

calcVars == <<profile, weight, gustFactor, perf, card>>

gustVars == <<text, gust>>

tafVars == <<content, stationCode, parsedTaf>>

activeVars == <<tafData, now, forecast>>

fetchVars == <<icao, loading, metarText, resultStatus, pending, issued, finished>>

appVars == <<profiles, activeProfileId, isCreating, wiz, msNow, refAtFinish>>

vars == <<calcVars, gustVars, tafVars, activeVars, fetchVars, appVars>>

----------------------------------------------------------------------------
(* Bounds of the model *)

\* The samples of a performance table, and its weights 1..MaxLbs
MaxSamples == 3
MaxLbs == 3

\* The fragments a text given to extractGust is put together from
MaxGustFrags == 4

\* The fragments a page given to parseTaf is put together from
MaxTafFrags == 3

\* The lines of the forecast the tafData state is parsed from
MaxTafLines == 3

\* The requests sent in a run of the weather section
MaxFetches == 2

\* The columns and rows a table of the wizard is grown to by its add buttons
MaxWizCols == 3
MaxWizRows == 3

\* The ids made from Date.now() in one run of the wizard
MaxMs == 1

\* The profiles made by the wizard
MaxCustom == 1

----------------------------------------------------------------------------
(* JavaScript Number arithmetic *)

Abs(i) == IF i < 0 THEN -i ELSE i

Sign(i) == IF i < 0 THEN -1 ELSE IF i > 0 THEN 1 ELSE 0

RECURSIVE Gcd(_, _)
Gcd(a, b) == IF b = 0 THEN a ELSE Gcd(b, a % b)

\* The Number n/d, in lowest terms with a non-negative denominator.
Num(n, d) ==
    IF d = 0 THEN [n |-> Sign(n), d |-> 0]
    ELSE LET g == Gcd(Abs(n), Abs(d))
         IN  [n |-> (Sign(d) * n) \div g, d |-> Abs(d) \div g]

Whole(i) == [n |-> i, d |-> 1]

NaN == [n |-> 0, d |-> 0]

IsNaN(a) == a.d = 0 /\ a.n = 0

IsFinite(a) == a.d # 0

\* a + b
Plus(a, b) ==
    IF a.d = 0 /\ b.d = 0
    THEN (IF a.n = b.n THEN a ELSE NaN)
    ELSE Num(a.n * b.d + b.n * a.d, a.d * b.d)

\* a - b
Minus(a, b) == Plus(a, [n |-> -b.n, d |-> b.d])

\* a * b
Times(a, b) == Num(a.n * b.n, a.d * b.d)

\* a / b
Div(a, b) == Num(a.n * b.d * (IF b.n < 0 THEN -1 ELSE 1), a.d * Abs(b.n))

\* a <= b, a >= b, a < b, a === b (every comparison with NaN is false)
Le(a, b) ==
    /\ ~IsNaN(a) /\ ~IsNaN(b)
    /\ IF a.d = 0 /\ b.d = 0 THEN a.n <= b.n
       ELSE IF a.d = 0 THEN a.n < 0
       ELSE IF b.d = 0 THEN b.n > 0
       ELSE a.n * b.d <= b.n * a.d

Ge(a, b) == Le(b, a)

StrictEq(a, b) == ~IsNaN(a) /\ a = b

Lt(a, b) == Le(a, b) /\ ~StrictEq(a, b)

\* Math.max(a, b), Math.min(a, b)
MathMax(a, b) == IF IsNaN(a) \/ IsNaN(b) THEN NaN ELSE IF Le(a, b) THEN b ELSE a

MathMin(a, b) == IF IsNaN(a) \/ IsNaN(b) THEN NaN ELSE IF Le(a, b) THEN a ELSE b

\* Math.round(a): the nearest integer, a half rounding up
MathRound(a) == IF a.d = 0 THEN a ELSE Whole((2 * a.n + a.d) \div (2 * a.d))

\* obj[key] || 0: the property, or 0 when it is undefined, 0 or NaN
OrZero(obj, key) ==
    IF key \in DOMAIN obj /\ ~IsNaN(obj[key]) THEN obj[key] ELSE Whole(0)

----------------------------------------------------------------------------
(* interpolate *)

\* Mutant: the upper clamp is forgotten
safeWeight_NoUpperClamp(currentWeight, data) ==
    MathMax(data[1].lbs, currentWeight)

\* Mutant: no clamping at all
safeWeight_Unclamped(currentWeight, data) == currentWeight

\* const safeWeight = Math.max(lower.lbs, Math.min(upper.lbs, currentWeight))
safeWeight(currentWeight, data) ==
    MathMax(data[1].lbs, MathMin(data[Len(data)].lbs, currentWeight))

\* Mutant: the loop tests safeWeight < data[i + 1].lbs
RECURSIVE bracketFrom_StrictUpper(_, _, _)
bracketFrom_StrictUpper(i, w, data) ==
    IF i > Len(data) - 1 THEN 0
    ELSE IF Ge(w, data[i].lbs) /\ Lt(w, data[i + 1].lbs) THEN i
    ELSE bracketFrom_StrictUpper(i + 1, w, data)

\* The for loop: the first i (1-based) from `i` on with
\* data[i].lbs <= w <= data[i+1].lbs, or 0 when the loop ends without a break.
RECURSIVE bracketFrom(_, _, _)
bracketFrom(i, w, data) ==
    IF i > Len(data) - 1 THEN 0
    ELSE IF Ge(w, data[i].lbs) /\ Le(w, data[i + 1].lbs) THEN i
    ELSE bracketFrom(i + 1, w, data)

\* lower and upper after the loop
bracket(w, data) ==
    LET i == bracketFrom(1, w, data)
    IN  IF i = 0
        THEN [lower |-> data[1], upper |-> data[Len(data)]]
        ELSE [lower |-> data[i], upper |-> data[i + 1]]

\* Mutant: the ratio is measured from the upper sample
blend_RatioFromUpper(w, configKey, b) ==
    IF StrictEq(b.lower.lbs, b.upper.lbs)
    THEN OrZero(b.lower.speeds, configKey)
    ELSE LET lowerVal == OrZero(b.lower.speeds, configKey)
             upperVal == OrZero(b.upper.speeds, configKey)
             ratio == Div(Minus(b.upper.lbs, w), Minus(b.upper.lbs, b.lower.lbs))
         IN  Plus(lowerVal, Times(ratio, Minus(upperVal, lowerVal)))

\* Mutant: no test for lower.lbs === upper.lbs before dividing
blend_NoEqualCheck(w, configKey, b) ==
    LET lowerVal == OrZero(b.lower.speeds, configKey)
        upperVal == OrZero(b.upper.speeds, configKey)
        ratio == Div(Minus(w, b.lower.lbs), Minus(b.upper.lbs, b.lower.lbs))
    IN  Plus(lowerVal, Times(ratio, Minus(upperVal, lowerVal)))

\* The value returned for the bracket b at weight w
blend(w, configKey, b) ==
    IF StrictEq(b.lower.lbs, b.upper.lbs)
    THEN OrZero(b.lower.speeds, configKey)
    ELSE LET lowerVal == OrZero(b.lower.speeds, configKey)
             upperVal == OrZero(b.upper.speeds, configKey)
             ratio == Div(Minus(w, b.lower.lbs), Minus(b.upper.lbs, b.lower.lbs))
         IN  Plus(lowerVal, Times(ratio, Minus(upperVal, lowerVal)))

interpolate(currentWeight, configKey, data) ==
    LET w == safeWeight(currentWeight, data)
    IN  blend(w, configKey, bracket(w, data))

----------------------------------------------------------------------------
(* useAircraftPerformance *)

\* String.prototype.includes
Includes(s, sub) ==
    \E i \in 1..(Len(s) - Len(sub) + 1) : SubSeq(s, i, i + Len(sub) - 1) = sub

\* Mutant: the first configuration is taken to be the clean one
cleanKey_FirstConfig(p) == p.configs[1].key

\* profile.configs.find(c => c.key.includes('clean'))?.key || profile.configs[0].key
cleanKey(p) ==
    LET hits == {i \in 1..Len(p.configs) : Includes(p.configs[i].key, "clean")}
        first == CHOOSE i \in hits : \A j \in hits : i <= j
    IN  IF hits # {} /\ p.configs[first].key # ""
        THEN p.configs[first].key
        ELSE p.configs[1].key

configKeys(p) == {p.configs[i].key : i \in 1..Len(p.configs)}

\* The stallSpeed memo
stallSpeedOf(w, p) ==
    [k \in configKeys(p) |-> interpolate(w, k, p.performanceData)]

\* Mutant: the whole gust factor is added
approachSpeedOf_FullGust(stall, g, p) ==
    [k \in {p.configs[i].key : i \in 1..Len(p.configs)} |->
        Plus(Times(OrZero(stall, k), Num(13, 10)), g)]

\* The approachSpeed memo: (sVal * 1.3) + gustFactor * 0.5
approachSpeedOf(stall, g, p) ==
    [k \in configKeys(p) |->
        Plus(Times(OrZero(stall, k), Num(13, 10)), Times(g, Num(1, 2)))]

useAircraftPerformance(w, g, p) ==
    LET stall == stallSpeedOf(w, p)
        cleanStall == OrZero(stall, cleanKey(p))
        dmms == MathRound(Times(cleanStall, p.dmmsFactor))
    IN  [stallSpeed |-> stall,
         approachSpeed |-> approachSpeedOf(stall, g, p),
         dmms |-> dmms,
         buffer |-> MathRound(Minus(dmms, cleanStall))]

----------------------------------------------------------------------------
(* Profiles *)

\* constants: the built-in default profile
MOONEY_M20J ==
    [id |-> "mooney-m20j-default-v3",
     dmmsFactor |-> Num(1404, 1000),
     configs |-> <<[key |-> "clean"], [key |-> "flaps15"], [key |-> "flaps33"]>>,
     performanceData |-> <<
        [lbs |-> Whole(2200),
         speeds |-> [clean |-> Whole(56), flaps15 |-> Whole(53), flaps33 |-> Whole(50)]],
        [lbs |-> Whole(2400),
         speeds |-> [clean |-> Whole(59), flaps15 |-> Whole(55), flaps33 |-> Whole(52)]],
        [lbs |-> Whole(2600),
         speeds |-> [clean |-> Num(615, 10), flaps15 |-> Num(565, 10),
                     flaps33 |-> Num(535, 10)]],
        [lbs |-> Whole(2740),
         speeds |-> [clean |-> Whole(63), flaps15 |-> Whole(58), flaps33 |-> Whole(56)]]>>,
     presets |-> <<[label |-> "Solo + Full Fuel", val |-> Whole(1850), icon |-> "User"],
                   [label |-> "Training (Dual)", val |-> Whole(2100), icon |-> "Users"],
                   [label |-> "Max Gross", val |-> Whole(2740), icon |-> "Weight"]>>]

\* The configuration lists of the other profiles the calculator is run on:
\* a 'clean' key that is not the first one, and keys as the wizard makes them
\* (col-<i>), none of which includes 'clean'.
ConfigLists ==
    { <<[key |-> "flaps15"], [key |-> "clean"]>>,
      <<[key |-> "col-0"], [key |-> "col-1"]>> }

\* The speeds of one sample, given to the two keys of a configuration list:
\* rising and falling from one sample to the next, and missing for a key.
SampleSpeeds(k1, k2) ==
    { (k1 :> Whole(4)) @@ (k2 :> Whole(7)),
      (k1 :> Whole(7)) @@ (k2 :> Whole(4)),
      (k1 :> Whole(5)) }

Samples(k1, k2) ==
    {[lbs |-> Whole(l), speeds |-> s] : l \in 1..MaxLbs, s \in SampleSpeeds(k1, k2)}

\* ChartDataPoint[] tables of 1..MaxSamples samples in ascending weight order
\* (two samples may share a weight)
Tables(k1, k2) ==
    UNION {
        {t \in [1..len -> Samples(k1, k2)] :
            \A i \in 1..(len - 1) : Le(t[i].lbs, t[i + 1].lbs)}
        : len \in 1..MaxSamples}

\* A profile as handleFinish builds it from the sorted rows of the wizard
customProfile(cfgs, table) ==
    LET minW == table[1].lbs
        maxW == table[Len(table)].lbs
    IN  [id |-> "custom",
         dmmsFactor |-> Num(1404, 1000),
         configs |-> cfgs,
         performanceData |-> table,
         presets |-> <<[label |-> "Light", val |-> minW, icon |-> "User"],
                       [label |-> "Mid",
                        val |-> MathRound(Div(Plus(minW, maxW), Whole(2))),
                        icon |-> "Users"],
                       [label |-> "Max Gross", val |-> maxW, icon |-> "Weight"]>>]

CalcProfiles ==
    {MOONEY_M20J} \cup
    UNION {{customProfile(c, t) : t \in Tables(c[1].key, c[2].key)} : c \in ConfigLists}

\* The gust factors the calculator is run on
GustValues == {Whole(0), Whole(7)}

\* The weights the calculator is run on: for the default profile its presets,
\* the initial weight and the slider's positions (min to max in steps of 10);
\* for the other profiles every weight from below the table to above it.
CalcWeights(p) ==
    IF p = MOONEY_M20J
    THEN {Whole(1850), Whole(2100), Whole(2500)} \cup {Whole(2200 + 10 * i) : i \in 0..54}
    ELSE {Whole(w) : w \in 0..(MaxLbs + 1)}

----------------------------------------------------------------------------
(* Part 2: weatherService (extractGust, parseTaf).  JavaScript strings *)

\* The value null
Null == [null |-> TRUE]

\* s.charAt(i - 1): the character at the 1-based position i, "" outside s
CharAt(s, i) == IF 1 <= i /\ i <= Len(s) THEN SubSeq(s, i, i) ELSE ""

\* s.substring(from0, to0), both 0-based and within 0..s.length after clamping
Substring(s, from0, to0) ==
    LET lo == IF from0 < 0 THEN 0 ELSE IF from0 > Len(s) THEN Len(s) ELSE from0
        hi == IF to0 < 0 THEN 0 ELSE IF to0 > Len(s) THEN Len(s) ELSE to0
    IN  IF lo <= hi THEN SubSeq(s, lo + 1, hi) ELSE SubSeq(s, hi + 1, lo)

\* The literal lit stands in s at the 1-based position i
LitAt(s, i, lit) ==
    /\ i >= 1
    /\ i + Len(lit) - 1 <= Len(s)
    /\ SubSeq(s, i, i + Len(lit) - 1) = lit

\* [0-9]
IsDigit(c) == c \in {"0", "1", "2", "3", "4", "5", "6", "7", "8", "9"}

\* [0-9]{n} stands in s at the 1-based position i
DigitsAt(s, i, n) ==
    /\ i >= 1
    /\ i + n - 1 <= Len(s)
    /\ \A j \in i..(i + n - 1) : IsDigit(SubSeq(s, j, j))

\* \s
IsSpace(c) == c \in {" ", "\n", "\t", "\r"}

DigitValue(c) == CHOOSE v \in 0..9 : SubSeq("0123456789", v + 1, v + 1) = c

\* The digits of parseInt(s, 10): the value of the longest prefix of digits, read
\* left to right from position i with acc so far; NaN when there is no digit.
RECURSIVE parseDigits(_, _, _, _)
parseDigits(s, i, acc, any) ==
    IF i <= Len(s) /\ IsDigit(SubSeq(s, i, i))
    THEN parseDigits(s, i + 1, 10 * acc + DigitValue(SubSeq(s, i, i)), TRUE)
    ELSE IF any THEN Whole(acc) ELSE NaN

RECURSIVE skipSpaces(_, _)
skipSpaces(s, i) ==
    IF i <= Len(s) /\ IsSpace(SubSeq(s, i, i)) THEN skipSpaces(s, i + 1) ELSE i

\* Mutant: a leading zero makes the number octal (parseInt without a radix in
\* old engines); digits 8 and 9 end such a number
RECURSIVE parseOctalDigits(_, _, _)
parseOctalDigits(s, i, acc) ==
    IF i <= Len(s) /\ SubSeq(s, i, i) \in {"0", "1", "2", "3", "4", "5", "6", "7"}
    THEN parseOctalDigits(s, i + 1, 8 * acc + DigitValue(SubSeq(s, i, i)))
    ELSE Whole(acc)

parseInt_LeadingZeroOctal(s) ==
    LET i == skipSpaces(s, 1)
    IN  IF CharAt(s, i) = "0" /\ IsDigit(CharAt(s, i + 1))
        THEN parseOctalDigits(s, i + 1, 0)
        ELSE parseDigits(s, i, 0, FALSE)

\* parseInt(s, 10) and parseInt(s) of a text without a 0x prefix: leading white
\* space is skipped, then a sign is read, then the digits
parseInt(s) ==
    LET i == skipSpaces(s, 1)
        signed == CharAt(s, i) \in {"-", "+"}
        digits == parseDigits(s, IF signed THEN i + 1 ELSE i, 0, FALSE)
    IN  IF CharAt(s, i) = "-" /\ ~IsNaN(digits) THEN Whole(-digits.n) ELSE digits

----------------------------------------------------------------------------
(* extractGust *)

\* /([0-9]{3}|VRB)([0-9]{2,3})G([0-9]{2,3})KT/ tried at the 1-based position i:
\* the groups of the match, or Null.  {2,3} is greedy: three digits are tried
\* before two.
gustGroupsWith(s, i, n2, n3) ==
    [index |-> i,
     g1 |-> SubSeq(s, i, i + 2),
     g2 |-> SubSeq(s, i + 3, i + 2 + n2),
     g3 |-> SubSeq(s, i + 4 + n2, i + 3 + n2 + n3)]

gustTailAt(s, i, n2) ==
    IF DigitsAt(s, i + 3, n2) /\ LitAt(s, i + 3 + n2, "G")
    THEN IF DigitsAt(s, i + 4 + n2, 3) /\ LitAt(s, i + 7 + n2, "KT")
         THEN gustGroupsWith(s, i, n2, 3)
         ELSE IF DigitsAt(s, i + 4 + n2, 2) /\ LitAt(s, i + 6 + n2, "KT")
         THEN gustGroupsWith(s, i, n2, 2)
         ELSE Null
    ELSE Null

gustMatchAt(s, i) ==
    IF DigitsAt(s, i, 3) \/ LitAt(s, i, "VRB")
    THEN IF gustTailAt(s, i, 3) # Null THEN gustTailAt(s, i, 3) ELSE gustTailAt(s, i, 2)
    ELSE Null

\* text.match(...): the leftmost match, or Null
RECURSIVE gustMatchFrom(_, _)
gustMatchFrom(s, i) ==
    IF i > Len(s) THEN Null
    ELSE IF gustMatchAt(s, i) # Null THEN gustMatchAt(s, i)
    ELSE gustMatchFrom(s, i + 1)

\* Mutant: a parsed gust of 0 is treated as no gust
extractGust_ZeroIsNull(t) ==
    LET match == gustMatchFrom(t, 1)
    IN  IF match # Null /\ parseInt(match.g3) # Whole(0)
        THEN parseInt(match.g3)
        ELSE Null

extractGust(t) ==
    LET match == gustMatchFrom(t, 1)
    IN  IF match # Null /\ match.g3 # "" THEN parseInt(match.g3) ELSE Null

----------------------------------------------------------------------------
(* parseTaf *)

\* rawHtml.replace(/<[^>]*>/g, ' '), from the 1-based position i on: a '<' with
\* a '>' somewhere after it is replaced, up to the first such '>', by a space
Least(S) == CHOOSE x \in S : \A y \in S : x <= y

\* The position of the first '>' at or after j, or 0
closingFrom(s, j) ==
    LET at == {k \in j..Len(s) : SubSeq(s, k, k) = ">"}
    IN  IF at = {} THEN 0 ELSE Least(at)

RECURSIVE stripTagsFrom(_, _)
stripTagsFrom(s, i) ==
    LET opens == {k \in i..Len(s) : SubSeq(s, k, k) = "<" /\ closingFrom(s, k + 1) # 0}
    IN  IF opens = {} THEN SubSeq(s, i, Len(s))
        ELSE LET open == Least(opens)
             IN  SubSeq(s, i, open - 1) \o " "
                    \o stripTagsFrom(s, closingFrom(s, open + 1) + 1)

\* .replace(/\s+/g, ' '), from the 1-based position i on
RECURSIVE collapseSpacesFrom(_, _)
collapseSpacesFrom(s, i) ==
    LET spaces == {k \in i..Len(s) : IsSpace(SubSeq(s, k, k))}
    IN  IF spaces = {} THEN SubSeq(s, i, Len(s))
        ELSE LET run == Least(spaces)
             IN  SubSeq(s, i, run - 1) \o " " \o collapseSpacesFrom(s, skipSpaces(s, run))

cleanTextOf(rawHtml) == collapseSpacesFrom(stripTagsFrom(rawHtml, 1), 1)

\* s.indexOf(sub, from0): the 0-based index of the first occurrence of sub at
\* or after from0, or -1
IndexOf(s, sub, from0) ==
    LET at == {k \in from0..(Len(s) - Len(sub)) : LitAt(s, k + 1, sub)}
    IN  IF at = {} THEN -1 ELSE Least(at)

\* The length of the group marker of the kind that stands in s at the 1-based
\* position i, or 0:
\*   FM     /FM[0-9]{6}/
\*   BECMG  /BECMG [0-9]{4}\/[0-9]{4}/
\*   TEMPO  /TEMPO [0-9]{4}\/[0-9]{4}/
\*   PROB   /PROB[0-9]{2} [0-9]{4}\/[0-9]{4}/
rangeAt(s, i) ==
    DigitsAt(s, i, 4) /\ LitAt(s, i + 4, "/") /\ DigitsAt(s, i + 5, 4)

markerLenAt(kind, s, i) ==
    CASE kind = "FM" ->
            IF LitAt(s, i, "FM") /\ DigitsAt(s, i + 2, 6) THEN 8 ELSE 0
      [] kind = "BECMG" ->
            IF LitAt(s, i, "BECMG ") /\ rangeAt(s, i + 6) THEN 15 ELSE 0
      [] kind = "TEMPO" ->
            IF LitAt(s, i, "TEMPO ") /\ rangeAt(s, i + 6) THEN 15 ELSE 0
      [] kind = "PROB" ->
            IF LitAt(s, i, "PROB") /\ DigitsAt(s, i + 4, 2) /\ LitAt(s, i + 6, " ")
               /\ rangeAt(s, i + 7)
            THEN 16 ELSE 0

\* cleanText.match(/(FM[0-9]{6}|BECMG [0-9]{4}\/[0-9]{4})/).index, 0-based,
\* or -1 when there is no match
firstGroupFrom(s, i) ==
    LET at == {k \in i..Len(s) :
                  markerLenAt("FM", s, k) > 0 \/ markerLenAt("BECMG", s, k) > 0}
    IN  IF at = {} THEN -1 ELSE Least(at) - 1

\* Mutant: 'TAF '+code is tried before 'TAF: '+code
tafStartOf_SpaceHeaderFirst(cleanText, code) ==
    LET bySpace == IndexOf(cleanText, "TAF " \o code, 0)
        byColon == IF bySpace = -1 THEN IndexOf(cleanText, "TAF: " \o code, 0) ELSE bySpace
    IN  IF byColon = -1 THEN firstGroupFrom(cleanText, 1) ELSE byColon

\* 2. Find the start of the TAF
tafStartOf(cleanText, code) ==
    LET byColon == IndexOf(cleanText, "TAF: " \o code, 0)
        bySpace == IF byColon = -1 THEN IndexOf(cleanText, "TAF " \o code, 0) ELSE byColon
    IN  IF bySpace = -1 THEN firstGroupFrom(cleanText, 1) ELSE bySpace

stopMarkers == <<"METAR", "OBSERVATION", "Copyright", "Key to Decoding">>

\* Mutant: the stop markers are searched from the start of the block
RECURSIVE endIndexFrom_SearchFromStart(_, _, _)
endIndexFrom_SearchFromStart(tafBlock, k, endIndex) ==
    IF k > Len(stopMarkers) THEN endIndex
    ELSE LET idx == IndexOf(tafBlock, stopMarkers[k], 0)
         IN  endIndexFrom_SearchFromStart(tafBlock, k + 1,
                          IF idx > -1 /\ idx < endIndex THEN idx ELSE endIndex)

\* stopMarkers.forEach: endIndex after the markers from the k-th on
RECURSIVE endIndexFrom(_, _, _)
endIndexFrom(tafBlock, k, endIndex) ==
    IF k > Len(stopMarkers) THEN endIndex
    ELSE LET idx == IndexOf(tafBlock, stopMarkers[k], 10)
         IN  endIndexFrom(tafBlock, k + 1,
                          IF idx > -1 /\ idx < endIndex THEN idx ELSE endIndex)

\* 3. Extract block
tafBlockOf(cleanText, tafStart) ==
    LET whole == Substring(cleanText, tafStart, Len(cleanText))
    IN  Substring(whole, 0, endIndexFrom(whole, 1, Len(whole)))

\* s.replace(/(<marker>)/g, '\n$1'), from the 1-based position i on
RECURSIVE breakBefore(_, _, _)
breakBefore(kind, s, i) ==
    LET at == {k \in i..Len(s) : markerLenAt(kind, s, k) > 0}
    IN  IF at = {} THEN SubSeq(s, i, Len(s))
        ELSE LET k == Least(at)
                 n == markerLenAt(kind, s, k)
             IN  SubSeq(s, i, k - 1) \o "\n" \o SubSeq(s, k, k + n - 1)
                    \o breakBefore(kind, s, k + n)

formattedTafOf(tafBlock) ==
    breakBefore("PROB",
        breakBefore("TEMPO",
            breakBefore("BECMG",
                breakBefore("FM", tafBlock, 1), 1), 1), 1)

\* s.split('\n'), from the 1-based position i on
RECURSIVE splitLines(_, _)
splitLines(s, i) ==
    LET at == {k \in i..Len(s) : SubSeq(s, k, k) = "\n"}
    IN  IF at = {} THEN <<SubSeq(s, i, Len(s))>>
        ELSE <<SubSeq(s, i, Least(at) - 1)>> \o splitLines(s, Least(at) + 1)

\* l.trim()
RECURSIVE trimEnd(_)
trimEnd(l) ==
    IF Len(l) > 0 /\ IsSpace(SubSeq(l, Len(l), Len(l)))
    THEN trimEnd(SubSeq(l, 1, Len(l) - 1))
    ELSE l

trim(l) == trimEnd(SubSeq(l, skipSpaces(l, 1), Len(l)))

\* Mutant: the noise filter keeps lines of 5 characters
keepLine_FiveOrMore(l) == Len(l) >= 5

\* .filter(l => l.length > 5)
keepLine(l) == Len(l) > 5

\* 4. Split
linesOf(tafBlock) ==
    LET pieces == splitLines(formattedTafOf(tafBlock), 1)
        trimmed == [k \in 1..Len(pieces) |-> trim(pieces[k])]
    IN  SelectSeq(trimmed, keepLine)

startsWith(l, prefix) == LitAt(l, 1, prefix)

\* Mutant: TEMPO and BECMG lines are read at the offsets of an FM line
entryOf_ChangeGroupOffsetsOfFm(line, index) ==
    LET fm == startsWith(line, "FM")
        tempo == ~fm /\ startsWith(line, "TEMPO")
        becmg == ~fm /\ ~tempo /\ startsWith(line, "BECMG")
        header == ~fm /\ ~tempo /\ ~becmg /\ (startsWith(line, "TAF") \/ index = 0)
    IN  [raw |-> line,
         gust |-> extractGust(line),
         type |-> IF fm THEN "FM" ELSE IF tempo THEN "TEMPO" ELSE IF becmg THEN "BECMG"
                  ELSE IF header THEN "HEADER" ELSE "BASE",
         day |-> IF fm \/ tempo \/ becmg THEN parseInt(Substring(line, 2, 4)) ELSE Null,
         hour |-> IF fm \/ tempo \/ becmg THEN parseInt(Substring(line, 4, 6)) ELSE Null]

\* Mutant: the day and hour of an FM line are read one character early
entryOf_FmOffsetsOneEarly(line, index) ==
    LET fm == startsWith(line, "FM")
        tempo == ~fm /\ startsWith(line, "TEMPO")
        becmg == ~fm /\ ~tempo /\ startsWith(line, "BECMG")
        header == ~fm /\ ~tempo /\ ~becmg /\ (startsWith(line, "TAF") \/ index = 0)
    IN  [raw |-> line,
         gust |-> extractGust(line),
         type |-> IF fm THEN "FM" ELSE IF tempo THEN "TEMPO" ELSE IF becmg THEN "BECMG"
                  ELSE IF header THEN "HEADER" ELSE "BASE",
         day |-> IF fm THEN parseInt(Substring(line, 1, 3))
                 ELSE IF tempo \/ becmg THEN parseInt(Substring(line, 6, 8))
                 ELSE Null,
         hour |-> IF fm THEN parseInt(Substring(line, 3, 5))
                  ELSE IF tempo \/ becmg THEN parseInt(Substring(line, 8, 10))
                  ELSE Null]

\* Mutant: every line that is no change group is a header, whatever its index
entryOf_HeaderAtAnyIndex(line, index) ==
    LET fm == startsWith(line, "FM")
        tempo == ~fm /\ startsWith(line, "TEMPO")
        becmg == ~fm /\ ~tempo /\ startsWith(line, "BECMG")
        header == ~fm /\ ~tempo /\ ~becmg
    IN  [raw |-> line,
         gust |-> extractGust(line),
         type |-> IF fm THEN "FM" ELSE IF tempo THEN "TEMPO" ELSE IF becmg THEN "BECMG"
                  ELSE IF header THEN "HEADER" ELSE "BASE",
         day |-> IF fm THEN parseInt(Substring(line, 2, 4))
                 ELSE IF tempo \/ becmg THEN parseInt(Substring(line, 6, 8))
                 ELSE Null,
         hour |-> IF fm THEN parseInt(Substring(line, 4, 6))
                  ELSE IF tempo \/ becmg THEN parseInt(Substring(line, 8, 10))
                  ELSE Null]

\* 5. Map: the entry of the line at the 0-based index
entryOf(line, index) ==
    LET fm == startsWith(line, "FM")
        tempo == ~fm /\ startsWith(line, "TEMPO")
        becmg == ~fm /\ ~tempo /\ startsWith(line, "BECMG")
        header == ~fm /\ ~tempo /\ ~becmg /\ (startsWith(line, "TAF") \/ index = 0)
    IN  [raw |-> line,
         gust |-> extractGust(line),
         type |-> IF fm THEN "FM" ELSE IF tempo THEN "TEMPO" ELSE IF becmg THEN "BECMG"
                  ELSE IF header THEN "HEADER" ELSE "BASE",
         day |-> IF fm THEN parseInt(Substring(line, 2, 4))
                 ELSE IF tempo \/ becmg THEN parseInt(Substring(line, 6, 8))
                 ELSE Null,
         hour |-> IF fm THEN parseInt(Substring(line, 4, 6))
                  ELSE IF tempo \/ becmg THEN parseInt(Substring(line, 8, 10))
                  ELSE Null]

\* Mutant: the change-group fallback is missing
parseTaf_NoFallback(rawHtml, code) ==
    LET cleanText == cleanTextOf(rawHtml)
        byColon == IndexOf(cleanText, "TAF: " \o code, 0)
        tafStart == IF byColon = -1 THEN IndexOf(cleanText, "TAF " \o code, 0) ELSE byColon
    IN  IF tafStart = -1 THEN <<>>
        ELSE LET lines == linesOf(tafBlockOf(cleanText, tafStart))
             IN  [k \in 1..Len(lines) |-> entryOf(lines[k], k - 1)]

parseTaf(rawHtml, code) ==
    LET cleanText == cleanTextOf(rawHtml)
        tafStart == tafStartOf(cleanText, code)
    IN  IF tafStart = -1 THEN <<>>
        ELSE LET lines == linesOf(tafBlockOf(cleanText, tafStart))
             IN  [k \in 1..Len(lines) |-> entryOf(lines[k], k - 1)]

----------------------------------------------------------------------------
(* Part 3: WeatherSection.  JavaScript Dates                               *)
(* A Date is its time value in whole hours since 1970-01-01T00:00Z: every  *)
(* date built here is on the hour, and now is cut to its hour, which       *)
(* leaves every comparison entryDate <= now as it is.                      *)

\* The day number of 1 January of year y (ECMAScript DayFromYear)
DayFromYear(y) ==
    365 * (y - 1970) + ((y - 1969) \div 4) - ((y - 1901) \div 100) + ((y - 1601) \div 400)

DaysInYear(y) == DayFromYear(y + 1) - DayFromYear(y)

\* The lengths of the months 0..11 of year y, at the indexes 1..12
MonthLengths(y) ==
    <<31, IF DaysInYear(y) = 366 THEN 29 ELSE 28, 31, 30, 31, 30, 31, 31, 30, 31, 30, 31>>

\* The days of year y before its month m, m in 0..11
RECURSIVE DaysBeforeMonth(_, _)
DaysBeforeMonth(y, m) ==
    IF m = 0 THEN 0 ELSE DaysBeforeMonth(y, m - 1) + MonthLengths(y)[m]

\* ECMAScript MakeDay: month and date may lie outside the calendar, and carry over
MakeDay(year, month, date) ==
    LET ym == year + (month \div 12)
        mn == month % 12
    IN  DayFromYear(ym) + DaysBeforeMonth(ym, mn) + date - 1

\* Date.UTC(year, month, day, hour, 0)
DateUTC(year, month, day, hour) == MakeDay(year, month, day) * 24 + hour

\* ECMAScript Day(t)
Day(t) == t \div 24

getUTCFullYear(t) ==
    CHOOSE y \in (1970 + (Day(t) \div 366))..(1970 + (Day(t) \div 365) + 1) :
        DayFromYear(y) <= Day(t) /\ Day(t) < DayFromYear(y + 1)

getUTCMonth(t) ==
    LET y == getUTCFullYear(t)
        dayInYear == Day(t) - DayFromYear(y)
    IN  CHOOSE m \in 0..11 :
            /\ DaysBeforeMonth(y, m) <= dayInYear
            /\ dayInYear < DaysBeforeMonth(y, m) + MonthLengths(y)[m + 1]

getUTCDate(t) ==
    LET y == getUTCFullYear(t)
    IN  Day(t) - DayFromYear(y) - DaysBeforeMonth(y, getUTCMonth(t)) + 1

getUTCHours(t) == t % 24

\* d.setUTCMonth(month): the year, the date of the month and the time of day of d are
\* kept, and a date the month does not have carries over into the next month
setUTCMonth(t, month) ==
    MakeDay(getUTCFullYear(t), month, getUTCDate(t)) * 24 + getUTCHours(t)

\* The hours the local time zone of the browser is ahead of UTC
timeZoneOffsetHours == -5

\* ECMAScript WeekDay of a local time, 0 for Sunday
WeekDay(t) == (Day(t) + 4) % 7

\* tafDate.toLocaleTimeString([], {weekday: 'short', hour: 'numeric', minute: '2-digit'}):
\* the weekday, the hour and the minute of the local time, the text of which is the
\* locale's
toLocaleTimeString(t) ==
    LET local == t + timeZoneOffsetHours
    IN  [weekday |-> WeekDay(local), hour |-> local % 24, minute |-> 0]

\* convertToLocalTime: the Date built from (day, hour), before it is formatted
tafDateOf(day, hour, nowT) ==
    LET tafDate == DateUTC(getUTCFullYear(nowT), getUTCMonth(nowT), day.n, hour.n)
        currentDay == getUTCDate(nowT)
    IN  IF day.n < currentDay /\ (currentDay - day.n) > 15
        THEN setUTCMonth(tafDate, getUTCMonth(tafDate) + 1)
        ELSE IF day.n > currentDay /\ (day.n - currentDay) > 15
        THEN setUTCMonth(tafDate, getUTCMonth(tafDate) - 1)
        ELSE tafDate

\* Helper to convert TAF DDHH to local friendly string
convertToLocalTime(day, hour, nowT) ==
    IF day = Null \/ hour = Null THEN Null
    ELSE toLocaleTimeString(tafDateOf(day, hour, nowT))

\* Helper to get Date object for a TAF entry; new Date(0) is the time value 0.
\* The entries parseTaf returns have a day and an hour that are null or numbers.
getEntryDate(entry, nowT) ==
    IF entry.day = Null \/ entry.hour = Null THEN 0
    ELSE LET d == DateUTC(getUTCFullYear(nowT), getUTCMonth(nowT), entry.day.n, entry.hour.n)
             currentDay == getUTCDate(nowT)
         IN  IF entry.day.n < currentDay /\ (currentDay - entry.day.n) > 15
             THEN setUTCMonth(d, getUTCMonth(d) + 1)
             ELSE IF entry.day.n > currentDay /\ (entry.day.n - currentDay) > 15
             THEN setUTCMonth(d, getUTCMonth(d) - 1)
             ELSE d

\* Mutant: TEMPO and BECMG lines are candidates as well
isCandidate_ChangeGroupsToo(line, idx) ==
    ~(line.type = "HEADER" /\ idx # 0)

\* The lines the forEach of getActiveTafIndex looks at: a HEADER only at index 0,
\* and the kinds FM, BASE and HEADER
isCandidate(line, idx) ==
    /\ ~(line.type = "HEADER" /\ idx # 0)
    /\ line.type \in {"FM", "BASE", "HEADER"}

\* tafData.forEach from the 0-based index idx on, activeIndex being the index set so far
RECURSIVE activeIndexFrom(_, _, _, _)
activeIndexFrom(data, nowT, idx, activeIndex) ==
    IF idx >= Len(data) THEN activeIndex
    ELSE LET line == data[idx + 1]
             started == isCandidate(line, idx) /\ getEntryDate(line, nowT) <= nowT
         IN  activeIndexFrom(data, nowT, idx + 1, IF started THEN idx ELSE activeIndex)

getActiveTafIndex(data, nowT) ==
    IF Len(data) = 0 THEN -1 ELSE activeIndexFrom(data, nowT, 0, -1)

----------------------------------------------------------------------------

(* Part 4: WeatherSection.  handleFetch *)

LowerLetters == "abcdefghijklmnopqrstuvwxyz"

UpperLetters == "ABCDEFGHIJKLMNOPQRSTUVWXYZ"

upperChar(c) ==
    LET at == {i \in 1..Len(LowerLetters) : SubSeq(LowerLetters, i, i) = c}
    IN  IF at = {} THEN c ELSE SubSeq(UpperLetters, Least(at), Least(at))

\* s.toUpperCase(), of a text in ASCII
RECURSIVE toUpperCase(_)
toUpperCase(s) ==
    IF Len(s) <= 1 THEN upperChar(s)
    ELSE LET half == Len(s) \div 2
         IN  toUpperCase(SubSeq(s, 1, half)) \o toUpperCase(SubSeq(s, half + 1, Len(s)))

\* `${n}` of a whole number n >= 0
RECURSIVE numberToString(_)
numberToString(n) ==
    IF n < 10 THEN SubSeq("0123456789", n + 1, n + 1)
    ELSE numberToString(n \div 10) \o SubSeq("0123456789", (n % 10) + 1, (n % 10) + 1)

\* The 1-based position of the first '<' after position z, or one past the end
nextOpenAfter(s, z) ==
    LET at == {k \in (z + 1)..Len(s) : SubSeq(s, k, k) = "<"}
    IN  IF at = {} THEN Len(s) + 1 ELSE Least(at)

\* new RegExp(`(${code}\\s+\\d{6}Z\\s+[^<]+)`, 'i') tried at the 1-based position p of
\* the page, code being a text of letters: the code and the Z in either case, white
\* space, six digits, Z, then white space and at least one more character before the
\* next '<'
metarMatchAt(page, code, p) ==
    LET afterCode == p + Len(code)
        digits == skipSpaces(page, afterCode)
        z == digits + 6
    IN  /\ digits > afterCode
        /\ DigitsAt(page, digits, 6)
        /\ toUpperCase(CharAt(page, z)) = "Z"
        /\ toUpperCase(SubSeq(page, p, afterCode - 1)) = toUpperCase(code)
        /\ IsSpace(CharAt(page, z + 1))
        /\ nextOpenAfter(page, z) >= z + 3

\* content.match(metarRegex): group 1 of the leftmost match, which runs to the next
\* '<', or no match
metarMatchOf(page, code) ==
    LET at == {p \in 1..(Len(page) - Len(code)) : metarMatchAt(page, code, p)}
    IN  IF at = {} THEN [found |-> FALSE, text |-> ""]
        ELSE LET p == Least(at)
                 z == skipSpaces(page, p + Len(code)) + 6
             IN  [found |-> TRUE,
                  text |-> SubSeq(page, p, nextOpenAfter(page, z) - 1)]

\* Mutant: a response that is not ok is read like one that is
fetchProxyWeather_NoOkCheck(response) ==
    IF response.kind = "reject"
    THEN [threw |-> TRUE, message |-> "Failed to fetch", contents |-> ""]
    ELSE [threw |-> FALSE, message |-> "", contents |-> response.contents]

\* fetchProxyWeather(url), given what the proxy answers: the contents it returns (""
\* standing for contents that are missing as well) or the Error it throws; a request
\* that rejects throws the TypeError of fetch
fetchProxyWeather(response) ==
    IF response.kind = "reject"
    THEN [threw |-> TRUE, message |-> "Failed to fetch", contents |-> ""]
    ELSE IF response.kind = "notOk"
    THEN [threw |-> TRUE, message |-> "Proxy network response was not ok", contents |-> ""]
    ELSE [threw |-> FALSE, message |-> "", contents |-> response.contents]

\* Mutant: the submit button is never disabled
submitEnabled_Always(isLoading) == TRUE

\* The form is submitted with its button <button type="submit" disabled={loading}>
submitEnabled(isLoading) == ~isLoading

----------------------------------------------------------------------------
(* Part 5: App and ProfileManager.  The profile list and the wizard *)

\* parseFloat(s) of a text without an exponent: leading white space is skipped,
\* then a sign, digits, and a point with digits are read; NaN when there is no digit
parseFloat(s) ==
    LET i == skipSpaces(s, 1)
        from == IF CharAt(s, i) \in {"-", "+"} THEN i + 1 ELSE i
        digitsEnd(j) == Least({k \in j..(Len(s) + 1) : ~IsDigit(CharAt(s, k))})
        point == digitsEnd(from)
        end == IF CharAt(s, point) = "." THEN digitsEnd(point + 1) ELSE point
        whole == IF point > from THEN parseDigits(s, from, 0, FALSE).n ELSE 0
        places == IF end > point THEN end - point - 1 ELSE 0
        fraction == IF places > 0 THEN parseDigits(s, point + 1, 0, FALSE).n ELSE 0
        value == Num(whole * 10 ^ places + fraction, 10 ^ places)
    IN  IF point = from /\ places = 0 THEN NaN
        ELSE IF CharAt(s, i) = "-" THEN Minus(Whole(0), value)
        ELSE value

\* x || fallback for a Number x: the fallback when x is 0 or NaN
orElse(x, fallback) == IF IsNaN(x) \/ x = Whole(0) THEN fallback ELSE x

\* Date.now(): the time at which the page was opened, and msNow later
DateNow == 1000000 + msNow

\* The wizard state of useState and of resetForm
wizInitial ==
    [step |-> "init", name |-> "", rowCounts |-> Whole(3), colCounts |-> Whole(2),
     cols |-> <<>>, rows |-> <<>>]

\* handleInitNext: the columns and rows it generates from the counts, which are
\* whole numbers; Array.from({ length: n }) has the indexes 0 .. n-1 and none when
\* n is negative
handleInitNext(w) ==
    LET totalCols == Plus(w.colCounts, Whole(1))
        arrayFrom(n) == IF n.n < 1 THEN <<>> ELSE [k \in 1..n.n |-> k - 1]
        newCols == [k \in DOMAIN arrayFrom(totalCols) |->
                       [id |-> "col-" \o numberToString(k - 1),
                        isRef |-> k - 1 = 0,
                        label |-> IF k - 1 = 0 THEN "Flaps 0" ELSE ""]]
        defaultWeight(i) ==
            IF w.rowCounts = Whole(3) /\ i = 0 THEN "2200"
            ELSE IF w.rowCounts = Whole(3) /\ i = 1 THEN "2500"
            ELSE IF w.rowCounts = Whole(3) /\ i = 2 THEN "2740"
            ELSE ""
        newRows == [k \in DOMAIN arrayFrom(w.rowCounts) |->
                       [id |-> "row-" \o numberToString(k - 1),
                        weight |-> defaultWeight(k - 1),
                        speeds |-> [c \in 1..totalCols.n |-> ""]]]
    IN  [w EXCEPT !.step = "table", !.cols = newCols, !.rows = newRows]

\* removeConfigCol(idx), behind its check of the number of columns; idx is 0-based
\* and withoutIndex(seq) is seq.filter((_, i) => i !== idx)
removeConfigCol(w, idx) ==
    LET withoutIndex(seq) ==
            [k \in 1..(Len(seq) - (IF idx + 1 \in DOMAIN seq THEN 1 ELSE 0)) |->
                IF k <= idx THEN seq[k] ELSE seq[k + 1]]
        newCols == withoutIndex(w.cols)
        safe == IF \E k \in DOMAIN newCols : newCols[k].isRef THEN newCols
                ELSE [newCols EXCEPT ![1].isRef = TRUE]
    IN  [w EXCEPT !.cols = safe,
                  !.rows = [r \in DOMAIN w.rows |->
                               [w.rows[r] EXCEPT !.speeds = withoutIndex(@)]]]

\* The disabled attribute of the Finish button, negated
finishEnabled(w) ==
    /\ \A r \in DOMAIN w.rows :
          trim(w.rows[r].weight) # "" /\ ~IsNaN(parseFloat(w.rows[r].weight))
    /\ \A c \in DOMAIN w.cols : trim(w.cols[c].label) # ""
    /\ \A r \in DOMAIN w.rows :
          \A c \in DOMAIN w.rows[r].speeds : trim(w.rows[r].speeds[c]) # ""
    /\ \E c \in DOMAIN w.cols : w.cols[c].isRef

\* The sample handleFinish makes of a row: its weight and, for the id of every
\* column, the speed of the cell at the column's index (of the last such column
\* where ids repeat), each read by parseFloat(...) || 0
sampleOf(row, cols) ==
    [lbs |-> orElse(parseFloat(row.weight), Whole(0)),
     speeds |-> [id \in {cols[c].id : c \in DOMAIN cols} |->
                    orElse(parseFloat(row.speeds[
                               CHOOSE c \in DOMAIN cols :
                                   /\ cols[c].id = id
                                   /\ \A j \in DOMAIN cols : cols[j].id = id => j <= c]),
                           Whole(0))]]

\* A sample is put into sorted samples behind those that are not heavier
insertRow(front, sample) ==
    LET before == {k \in DOMAIN front : Le(front[k].lbs, sample.lbs)}
        at == IF before = {} THEN 0 ELSE CHOOSE k \in before : \A j \in before : j <= k
    IN  SubSeq(front, 1, at) \o <<sample>> \o SubSeq(front, at + 1, Len(front))

\* Mutant: the rows are taken in the order they have in the wizard
sortedRows_AsEntered(rows) == rows

\* [...wiz.rows].sort((a, b) => (parseFloat(a.weight) || 0) - (parseFloat(b.weight) || 0)),
\* a stable sort by the weight that becomes the sample's lbs; the rows are given as
\* the samples made of them
RECURSIVE sortedRows(_)
sortedRows(rows) ==
    IF Len(rows) <= 1 THEN rows
    ELSE insertRow(sortedRows(SubSeq(rows, 1, Len(rows) - 1)), rows[Len(rows)])

\* handleFinish: the profile it hands to onAddProfile
handleFinish(w) ==
    [customProfile([c \in DOMAIN w.cols |-> [key |-> w.cols[c].id]],
                   sortedRows([r \in DOMAIN w.rows |-> sampleOf(w.rows[r], w.cols)]))
        EXCEPT !.id = "custom-" \o numberToString(DateNow)]

\* activeProfile: profiles.find(p => p.id === activeProfileId) || profiles[0]
activeProfileOf(list, id) ==
    LET hits == {k \in DOMAIN list : list[k].id = id}
    IN  IF hits = {} THEN list[1] ELSE list[Least(hits)]

\* Mutant: the value of the preset is taken as it is, without || 2500
maxGross_NoFallback(p) ==
    LET hits == {k \in DOMAIN p.presets : p.presets[k].icon = "Weight"}
    IN  IF hits = {} THEN Whole(2500) ELSE p.presets[Least(hits)].val

\* The effect on [activeProfile.id]:
\* activeProfile.presets.find(p => p.icon === 'Weight')?.val || 2500
maxGross(p) ==
    LET hits == {k \in DOMAIN p.presets : p.presets[k].icon = "Weight"}
    IN  IF hits = {} THEN Whole(2500)
        ELSE orElse(p.presets[Least(hits)].val, Whole(2500))

\* Mutant: the delete button is shown for the active profile as well
deleteOffered_ActiveToo(p, activeId) == startsWith(p.id, "custom")

\* The delete button of a profile of the list is rendered:
\* profile.id.startsWith('custom') && activeProfileId !== profile.id
deleteOffered(p, activeId) == startsWith(p.id, "custom") /\ activeId # p.id

----------------------------------------------------------------------------

(* The states of the parts that a specification leaves alone *)

\* Before the first render a component has no result
NotRendered == [rendered |-> FALSE]

\* Before extractGust has run there is no result
NotRun == [run |-> FALSE]

\* Before parseTaf has run there is no sequence of entries
NotParsed == <<NotRun>>

CalcIdle ==
    /\ profile = MOONEY_M20J
    /\ weight = Whole(2500)
    /\ gustFactor = Whole(0)
    /\ perf = NotRendered
    /\ card = NotRendered

GustIdle ==
    /\ text = ""
    /\ gust = NotRun

TafIdle ==
    /\ content = ""
    /\ stationCode = ""
    /\ parsedTaf = NotParsed

ActiveIdle ==
    /\ tafData = <<>>
    /\ now = 0
    /\ forecast = NotRendered

FetchIdle ==
    /\ icao = "KMIE"
    /\ loading = FALSE
    /\ metarText = ""
    /\ resultStatus = Null
    /\ pending = {}
    /\ issued = 0
    /\ finished = <<>>

AppIdle ==
    /\ profiles = <<MOONEY_M20J>>
    /\ activeProfileId = MOONEY_M20J.id
    /\ isCreating = FALSE
    /\ wiz = wizInitial
    /\ msNow = 0
    /\ refAtFinish = <<>>

----------------------------------------------------------------------------
(* The calculator: SpeedResults and DmmsCard render from the props *)

InitCalc ==
    /\ profile \in CalcProfiles
    /\ weight \in CalcWeights(profile)
    /\ gustFactor \in GustValues
    /\ perf = NotRendered
    /\ card = NotRendered
    /\ GustIdle
    /\ TafIdle
    /\ ActiveIdle
    /\ FetchIdle
    /\ AppIdle

\* A render of the calculator.
\* SpeedResults: useAircraftPerformance(weight, gustFactor, profile);
\* DmmsCard: useAircraftPerformance(weight, 0, profile).
Render ==
    /\ perf = NotRendered
    /\ perf' = useAircraftPerformance(weight, gustFactor, profile)
    /\ card' = useAircraftPerformance(weight, Whole(0), profile)
    /\ UNCHANGED <<profile, weight, gustFactor, gustVars, tafVars, activeVars, fetchVars, appVars>>

NextCalc == Render

SpecCalc == InitCalc /\ [][NextCalc]_vars

----------------------------------------------------------------------------
(* extractGust applied to texts *)

\* The pieces of METAR and TAF lines the texts are put together from
GustFrags ==
    <<"180", "VRB", "08", "G067KT", "G00KT", "G5KT", " ", "27010G30KT">>

RECURSIVE Concat(_, _)
Concat(frags, picks) ==
    IF picks = <<>> THEN ""
    ELSE frags[Head(picks)] \o Concat(frags, Tail(picks))

\* Every text of at most max fragments
TextsOf(frags, max) ==
    UNION {{Concat(frags, picks) : picks \in [1..n -> 1..Len(frags)]} : n \in 0..max}

InitGust ==
    /\ CalcIdle
    /\ text \in TextsOf(GustFrags, MaxGustFrags)
    /\ gust = NotRun
    /\ TafIdle
    /\ ActiveIdle
    /\ FetchIdle
    /\ AppIdle

\* extractGust(text)
ExtractGust ==
    /\ gust = NotRun
    /\ gust' = extractGust(text)
    /\ UNCHANGED <<text, calcVars, tafVars, activeVars, fetchVars, appVars>>

NextGust == ExtractGust

SpecGust == InitGust /\ [][NextGust]_vars

----------------------------------------------------------------------------
(* parseTaf applied to pages and station codes *)

\* The pieces of a forecast page the pages are put together from
TafFrags ==
    <<"TAF: K", "TAF K", "M ", "FM121800 ", "BECMG 1300/1302 ", "TEMPO 1212/1214 ",
      "PROB30 1200/1204 ", "20015G22KT ", "METAR ", "<b>">>

StationCodes == {"K", "KM"}

InitTaf ==
    /\ CalcIdle
    /\ GustIdle
    /\ content \in TextsOf(TafFrags, MaxTafFrags)
    /\ stationCode \in StationCodes
    /\ parsedTaf = NotParsed
    /\ ActiveIdle
    /\ FetchIdle
    /\ AppIdle

\* parseTaf(content, code)
ParseTaf ==
    /\ parsedTaf = NotParsed
    /\ parsedTaf' = parseTaf(content, stationCode)
    /\ UNCHANGED <<content, stationCode, calcVars, gustVars, activeVars, fetchVars, appVars>>

NextTaf == ParseTaf

SpecTaf == InitTaf /\ [][NextTaf]_vars

----------------------------------------------------------------------------
(* WeatherSection renders the forecast: the active entry and the local times *)

\* The lines of a forecast the page of a fetch is put together from
TafLines ==
    <<"TAF: KMIE ", "FM010000 20015G25KT ", "FM161800 ", "FM170600 ", "FM311800 ",
      "TEMPO 0100/0104 ", "BECMG 0100/0102 ", "PROB30 0120/0124 ">>

\* new Date() at the render: noon UTC of days at the start, the middle and the end of
\* months of different lengths
Nows ==
    {DateUTC(2026, 0, 1, 12), DateUTC(2026, 0, 17, 12), DateUTC(2026, 1, 1, 12),
     DateUTC(2026, 3, 1, 12), DateUTC(2026, 3, 16, 12), DateUTC(2026, 3, 17, 12),
     DateUTC(2026, 11, 17, 12), DateUTC(2026, 11, 31, 12)}

\* tafData is [] or what handleFetch set it to: a non-empty parseTaf(content, code)
InitActive ==
    /\ CalcIdle
    /\ GustIdle
    /\ TafIdle
    /\ tafData \in {parseTaf(page, "KMIE") : page \in TextsOf(TafLines, MaxTafLines)}
    /\ now \in Nows
    /\ forecast = NotRendered
    /\ FetchIdle
    /\ AppIdle

\* A render of WeatherSection: activeTafIndex = getActiveTafIndex(), and for every
\* entry t of tafData.map, localTime = convertToLocalTime(t.day, t.hour)
RenderForecast ==
    /\ forecast = NotRendered
    /\ forecast' =
          [activeTafIndex |-> getActiveTafIndex(tafData, now),
           localTimes |-> [k \in 1..Len(tafData) |->
                             convertToLocalTime(tafData[k].day, tafData[k].hour, now)]]
    /\ UNCHANGED <<tafData, now, calcVars, gustVars, tafVars, fetchVars, appVars>>

NextActive == RenderForecast

SpecActive == InitActive /\ [][NextActive]_vars

----------------------------------------------------------------------------
(* WeatherSection fetches the weather: handleFetch and the answers of the proxy *)

\* The texts the input field is set to; setIcao stores them in upper case
Icaos == {"KMIE", "KAAA", "KM"}

\* The pages the proxy returns as contents
FetchPages ==
    {"<b>KMIE 011753Z 18010G25KT</b>TAF: KMIE 011720Z 18010KT FM020000 20015G30KT",
     "<b>KMIE 011753Z 18010KT</b>",
     "TAF: KMIE 011720Z 18008KT",
     "KMIE <b>no data</b>",
     "KMIE FM020000 20015G30KT",
     "kmie 011753z 18010G22KT KMIE",
     "<b>KAAA 011753Z 27010G30KT</b>",
     "<b>KMIE 011753Z 18010G35KT</b>",
     "TAF: KMIE 011720Z 18008G35KT",
     ""}

\* What a request can end with: it rejects, the response is not ok, or it is ok and
\* carries contents
Responses ==
    {[kind |-> "reject", contents |-> ""]}
        \cup {[kind |-> "notOk", contents |-> "<b>KMIE 011753Z 18010KT</b>"]}
        \cup {[kind |-> "ok", contents |-> page] : page \in FetchPages}

\* The gust factor is 0 at the start or where the gust slider has put it
InitFetch ==
    /\ profile = MOONEY_M20J
    /\ weight = Whole(2500)
    /\ gustFactor \in {Whole(0), Whole(12)}
    /\ perf = NotRendered
    /\ card = NotRendered
    /\ GustIdle
    /\ TafIdle
    /\ ActiveIdle
    /\ FetchIdle
    /\ AppIdle

\* onChange of the input field: setIcao(e.target.value.toUpperCase())
TypeIcao ==
    /\ \E typed \in Icaos :
           /\ toUpperCase(typed) # icao
           /\ icao' = toUpperCase(typed)
    /\ UNCHANGED <<loading, metarText, resultStatus, pending, issued, finished>>
    /\ UNCHANGED <<calcVars, gustVars, tafVars, activeVars, appVars>>

\* The form is submitted: handleFetch up to await fetchProxyWeather(url)
StartFetch ==
    /\ submitEnabled(loading)
    /\ issued < MaxFetches
    /\ ~(icao = "" \/ Len(icao) < 3)
    /\ loading' = TRUE
    /\ resultStatus' = Null
    /\ metarText' = ""
    /\ tafData' = <<>>
    /\ pending' = {[r EXCEPT !.overlapped = TRUE] : r \in pending}
                    \cup {[id |-> issued + 1, code |-> toUpperCase(icao),
                           overlapped |-> pending # {}]}
    /\ issued' = issued + 1
    /\ UNCHANGED <<icao, finished, now, forecast, calcVars, gustVars, tafVars, appVars>>

\* The request of a waiting call ends: handleFetch from the await to the end of finally
FinishFetch ==
    \E r \in pending, response \in Responses :
        LET code == r.code
            got == fetchProxyWeather(response)
            page == got.contents
            missing == page = "" \/ IndexOf(page, code, 0) = -1
            metarMatch == metarMatchOf(page, code)
            rawMetar == trim(metarMatch.text)
            foundGust == IF metarMatch.found THEN extractGust(rawMetar) ELSE Null
            parsed == parseTaf(page, code)
        IN  /\ IF got.threw \/ missing
               THEN /\ resultStatus' =
                          [source |-> "Network", status |-> "error",
                           msg |-> IF got.threw THEN got.message
                                   ELSE "Station data not found"]
                    /\ UNCHANGED <<metarText, tafData, gustFactor>>
               ELSE /\ metarText' = IF metarMatch.found THEN rawMetar ELSE metarText
                    /\ resultStatus' =
                          IF metarMatch.found /\ foundGust # Null
                          THEN [source |-> "METAR", status |-> "success",
                                msg |-> "Peak Gust: " \o numberToString(foundGust.n) \o " kts"]
                          ELSE IF metarMatch.found
                          THEN [source |-> "METAR", status |-> "success",
                                msg |-> "METAR active (No Gusts)"]
                          ELSE [source |-> "System", status |-> "warning",
                                msg |-> "No recent METAR found"]
                    /\ tafData' = IF Len(parsed) > 0 THEN parsed ELSE tafData
                    /\ gustFactor' = IF foundGust # Null THEN foundGust ELSE Whole(0)
            /\ loading' = FALSE
            /\ pending' = pending \ {r}
            /\ finished' = Append(finished, [id |-> r.id, code |-> code,
                                              overlapped |-> r.overlapped,
                                              response |-> response])
            /\ UNCHANGED <<icao, issued, now, forecast, profile, weight, perf, card,
                           gustVars, tafVars, appVars>>

\* The positions the gust slider is moved to, as the values of its input element
GustSliderValues == {"0", "30"}

\* onChange of the gust slider: setGustFactor(parseInt(e.target.value))
MoveGustSlider ==
    /\ \E value \in GustSliderValues :
           /\ parseInt(value) # gustFactor
           /\ gustFactor' = parseInt(value)
    /\ UNCHANGED <<profile, weight, perf, card, gustVars, tafVars, activeVars, fetchVars, appVars>>

\* The gust button of a forecast entry, rendered where t.gust is truthy, is clicked:
\* onGustUpdate(t.gust)
ClickTafGust ==
    /\ \E k \in 1..Len(tafData) :
           /\ tafData[k].gust # Null
           /\ tafData[k].gust # Whole(0)
           /\ tafData[k].gust # gustFactor
           /\ gustFactor' = tafData[k].gust
    /\ UNCHANGED <<profile, weight, perf, card, gustVars, tafVars, activeVars, fetchVars, appVars>>

NextFetch == TypeIcao \/ StartFetch \/ FinishFetch \/ MoveGustSlider \/ ClickTafGust

SpecFetch == InitFetch /\ [][NextFetch]_vars

----------------------------------------------------------------------------
(* App and ProfileManager: the profile list, the wizard and the weight *)

\* What is typed into the name field, the two count fields, a label field and a
\* weight field of the wizard.  The fields of the init step are filled in before
\* the first table is made; columns and rows are added and removed, and the table
\* is left by the Back button, before anything is typed into it; and the table is
\* filled in reading order: the labels from the left, the rows from the top, each
\* with its weight before its speeds.
\* The name typed is "Arrow", a count "1" or "-1", a label "Flaps 40", a weight
\* "0", and the speed of the cell at the 1-based positions r and c the stall speed
\* 70 - 6c + 2r of a handbook, with ".5" behind it in the second column.

\* Nothing has been typed into the table yet: the labels and weights are the
\* generated ones and the cells are empty
untouched(w) ==
    /\ \A c \in DOMAIN w.cols : w.cols[c].label \in {"", "Flaps 0"}
    /\ \A r \in DOMAIN w.rows :
          /\ w.rows[r].weight \in {"", "2200", "2500", "2740"}
          /\ \A c \in DOMAIN w.rows[r].speeds : w.rows[r].speeds[c] = ""

\* The state once App is mounted: the effect on [activeProfile.id] has run
InitApp ==
    /\ profile = MOONEY_M20J
    /\ weight = maxGross(MOONEY_M20J)
    /\ gustFactor = Whole(0)
    /\ perf = NotRendered
    /\ card = NotRendered
    /\ GustIdle
    /\ TafIdle
    /\ ActiveIdle
    /\ FetchIdle
    /\ AppIdle

\* What an action of the wizard leaves alone
wizardOnly ==
    UNCHANGED <<profiles, activeProfileId, refAtFinish, calcVars, gustVars, tafVars,
                activeVars, fetchVars>>

\* 'Create New Profile': setIsCreating(true); resetForm()
OpenWizard ==
    /\ ~isCreating
    /\ Len(refAtFinish) < MaxCustom
    /\ isCreating' = TRUE
    /\ wiz' = wizInitial
    /\ UNCHANGED msNow
    /\ wizardOnly

\* The close button: setIsOpen(false); setIsCreating(false); resetForm()
CloseManager ==
    /\ isCreating
    /\ isCreating' = FALSE
    /\ wiz' = wizInitial
    /\ UNCHANGED msNow
    /\ wizardOnly

\* The Back button: leaves the wizard from its init step, returns to the init step
\* from the table step
Back ==
    /\ isCreating
    /\ IF wiz.step = "init"
       THEN isCreating' = FALSE /\ UNCHANGED wiz
       ELSE untouched(wiz) /\ wiz' = [wiz EXCEPT !.step = "init"] /\ UNCHANGED isCreating
    /\ UNCHANGED msNow
    /\ wizardOnly

\* onChange of the name field
TypeName ==
    /\ isCreating /\ wiz.step = "init"
    /\ wiz.cols = <<>> /\ wiz.rows = <<>>
    /\ \E typed \in {"Arrow"} :
           /\ typed # wiz.name
           /\ wiz' = [wiz EXCEPT !.name = typed]
    /\ UNCHANGED <<isCreating, msNow>>
    /\ wizardOnly

\* onChange of the 'Weight Rows' field: rowCounts: parseInt(e.target.value) || 1
TypeRowCount ==
    /\ isCreating /\ wiz.step = "init"
    /\ wiz.cols = <<>> /\ wiz.rows = <<>>
    /\ \E typed \in {"1", "-1"} :
           /\ orElse(parseInt(typed), Whole(1)) # wiz.rowCounts
           /\ wiz' = [wiz EXCEPT !.rowCounts = orElse(parseInt(typed), Whole(1))]
    /\ UNCHANGED <<isCreating, msNow>>
    /\ wizardOnly

\* onChange of the 'Config Columns' field: colCounts: parseInt(e.target.value) || 1
TypeColCount ==
    /\ isCreating /\ wiz.step = "init"
    /\ wiz.cols = <<>> /\ wiz.rows = <<>>
    /\ \E typed \in {"1", "-1"} :
           /\ orElse(parseInt(typed), Whole(1)) # wiz.colCounts
           /\ wiz' = [wiz EXCEPT !.colCounts = orElse(parseInt(typed), Whole(1))]
    /\ UNCHANGED <<isCreating, msNow>>
    /\ wizardOnly

\* The Next button, disabled={!wiz.name}: handleInitNext, which Array(totalCols) makes
\* throw before setWiz when a row is generated for a negative number of columns
InitNext ==
    /\ isCreating /\ wiz.step = "init"
    /\ wiz.name # ""
    /\ ~(Lt(Plus(wiz.colCounts, Whole(1)), Whole(0)) /\ Lt(Whole(0), wiz.rowCounts))
    /\ wiz' = handleInitNext(wiz)
    /\ UNCHANGED <<isCreating, msNow>>
    /\ wizardOnly

\* onChange of the radio button of a column: setRefCol(col.id)
SetRefCol ==
    /\ isCreating /\ wiz.step = "table"
    /\ \E c \in DOMAIN wiz.cols :
           /\ ~wiz.cols[c].isRef
           /\ wiz' = [wiz EXCEPT !.cols =
                         [k \in DOMAIN wiz.cols |->
                             [wiz.cols[k] EXCEPT !.isRef = wiz.cols[k].id = wiz.cols[c].id]]]
    /\ UNCHANGED <<isCreating, msNow>>
    /\ wizardOnly

\* onChange of the label field of a column: updateCol(col.id, 'label', e.target.value)
TypeLabel ==
    /\ isCreating /\ wiz.step = "table"
    /\ \E c \in DOMAIN wiz.cols, typed \in {"Flaps 40"} :
           /\ wiz.cols[c].label = ""
           /\ \A c2 \in 1..(c - 1) : wiz.cols[c2].label # ""
           /\ wiz' = [wiz EXCEPT !.cols =
                         [k \in DOMAIN wiz.cols |->
                             IF wiz.cols[k].id = wiz.cols[c].id
                             THEN [wiz.cols[k] EXCEPT !.label = typed]
                             ELSE wiz.cols[k]]]
    /\ UNCHANGED <<isCreating, msNow>>
    /\ wizardOnly

\* onChange of the weight field of a row: updateRowWeight(row.id, e.target.value)
TypeWeight ==
    /\ isCreating /\ wiz.step = "table"
    /\ \E r \in DOMAIN wiz.rows, typed \in {"0"} :
           /\ wiz.rows[r].weight # typed
           /\ \A c \in DOMAIN wiz.rows[r].speeds : wiz.rows[r].speeds[c] = ""
           /\ \A r2 \in 1..(r - 1) : \A c2 \in DOMAIN wiz.rows[r2].speeds :
                 wiz.rows[r2].speeds[c2] # ""
           /\ wiz' = [wiz EXCEPT !.rows =
                         [k \in DOMAIN wiz.rows |->
                             IF wiz.rows[k].id = wiz.rows[r].id
                             THEN [wiz.rows[k] EXCEPT !.weight = typed]
                             ELSE wiz.rows[k]]]
    /\ UNCHANGED <<isCreating, msNow>>
    /\ wizardOnly

\* onChange of a speed field: updateSpeed(row.id, cIdx, e.target.value)
TypeSpeed ==
    /\ isCreating /\ wiz.step = "table"
    /\ \E r \in DOMAIN wiz.rows :
         \E c \in DOMAIN wiz.rows[r].speeds :
           /\ wiz.rows[r].speeds[c] = ""
           /\ \A r2 \in DOMAIN wiz.rows : \A c2 \in DOMAIN wiz.rows[r2].speeds :
                 (r2 < r \/ (r2 = r /\ c2 < c)) => wiz.rows[r2].speeds[c2] # ""
           /\ wiz' = [wiz EXCEPT !.rows =
                         [k \in DOMAIN wiz.rows |->
                             IF wiz.rows[k].id = wiz.rows[r].id
                             THEN [wiz.rows[k] EXCEPT !.speeds[c] =
                                      numberToString(70 - 6 * c + 2 * r)
                                          \o (IF c = 2 THEN ".5" ELSE "")]
                             ELSE wiz.rows[k]]]
    /\ UNCHANGED <<isCreating, msNow>>
    /\ wizardOnly

\* 'Add Column': addConfigCol
AddConfigCol ==
    /\ isCreating /\ wiz.step = "table"
    /\ untouched(wiz)
    /\ Len(wiz.cols) < MaxWizCols
    /\ msNow < MaxMs
    /\ wiz' = [wiz EXCEPT
                  !.cols = Append(@, [id |-> "col-" \o numberToString(DateNow),
                                      isRef |-> FALSE, label |-> ""]),
                  !.rows = [k \in DOMAIN wiz.rows |->
                               [wiz.rows[k] EXCEPT !.speeds = Append(@, "")]]]
    /\ msNow' = msNow + 1
    /\ UNCHANGED isCreating
    /\ wizardOnly

\* The remove button of a column, rendered when wiz.cols.length > 1: removeConfigCol(idx)
RemoveConfigCol ==
    /\ isCreating /\ wiz.step = "table"
    /\ untouched(wiz)
    /\ Len(wiz.cols) > 1
    /\ \E idx \in 0..(Len(wiz.cols) - 1) : wiz' = removeConfigCol(wiz, idx)
    /\ UNCHANGED <<isCreating, msNow>>
    /\ wizardOnly

\* 'Add Weight Row': addWeightRow
AddWeightRow ==
    /\ isCreating /\ wiz.step = "table"
    /\ untouched(wiz)
    /\ Len(wiz.rows) < MaxWizRows
    /\ msNow < MaxMs
    /\ wiz' = [wiz EXCEPT
                  !.rows = Append(@, [id |-> "row-" \o numberToString(DateNow),
                                      weight |-> "",
                                      speeds |-> [c \in DOMAIN wiz.cols |-> ""]])]
    /\ msNow' = msNow + 1
    /\ UNCHANGED isCreating
    /\ wizardOnly

\* The remove button of a row, rendered when wiz.rows.length > 1: removeWeightRow(row.id)
RemoveWeightRow ==
    /\ isCreating /\ wiz.step = "table"
    /\ untouched(wiz)
    /\ Len(wiz.rows) > 1
    /\ \E r \in DOMAIN wiz.rows :
           wiz' = [wiz EXCEPT !.rows =
                      SelectSeq(wiz.rows, LAMBDA row : row.id # wiz.rows[r].id)]
    /\ UNCHANGED <<isCreating, msNow>>
    /\ wizardOnly

\* The Finish button: handleFinish, then handleAddProfile and the effect on
\* [activeProfile.id]; on a table without rows sortedRows[0].weight throws and
\* nothing is set
Finish ==
    /\ isCreating /\ wiz.step = "table"
    /\ finishEnabled(wiz)
    /\ Len(wiz.rows) > 0
    /\ \E newProfile \in {handleFinish(wiz)} :
         \E activeProfile \in {activeProfileOf(Append(profiles, newProfile), newProfile.id)} :
           /\ profiles' = Append(profiles, newProfile)
           /\ activeProfileId' = newProfile.id
           /\ profile' = activeProfile
           /\ weight' = IF activeProfile.id # profile.id THEN maxGross(activeProfile)
                        ELSE weight
           /\ refAtFinish' =
                  Append(refAtFinish,
                         [id |-> newProfile.id,
                          ref |-> wiz.cols[Least({c \in DOMAIN wiz.cols :
                                                     wiz.cols[c].isRef})].id])
    /\ isCreating' = FALSE
    /\ wiz' = wizInitial
    /\ msNow' = msNow + 1
    /\ UNCHANGED <<gustFactor, perf, card, gustVars, tafVars, activeVars, fetchVars>>

\* A profile of the list is clicked: onSelectProfile(profile.id), then the effect on
\* [activeProfile.id]
SelectProfile ==
    /\ ~isCreating
    /\ \E k \in DOMAIN profiles :
           LET activeProfile == activeProfileOf(profiles, profiles[k].id)
           IN  /\ profiles[k].id # activeProfileId
               /\ activeProfileId' = profiles[k].id
               /\ profile' = activeProfile
               /\ weight' = IF activeProfile.id # profile.id THEN maxGross(activeProfile)
                            ELSE weight
    /\ UNCHANGED <<profiles, isCreating, wiz, msNow, refAtFinish>>
    /\ UNCHANGED <<gustFactor, perf, card, gustVars, tafVars, activeVars, fetchVars>>

\* The delete button of a profile is clicked: handleDeleteProfile(profile.id), then
\* the effect on [activeProfile.id]
DeleteProfile ==
    /\ ~isCreating
    /\ \E k \in DOMAIN profiles :
           LET newProfiles == SelectSeq(profiles, LAMBDA p : p.id # profiles[k].id)
               newActiveId == IF activeProfileId = profiles[k].id THEN newProfiles[1].id
                              ELSE activeProfileId
               activeProfile == activeProfileOf(newProfiles, newActiveId)
           IN  /\ deleteOffered(profiles[k], activeProfileId)
               /\ profiles' = newProfiles
               /\ activeProfileId' = newActiveId
               /\ profile' = activeProfile
               /\ weight' = IF activeProfile.id # profile.id THEN maxGross(activeProfile)
                            ELSE weight
    /\ UNCHANGED <<isCreating, wiz, msNow, refAtFinish>>
    /\ UNCHANGED <<gustFactor, perf, card, gustVars, tafVars, activeVars, fetchVars>>

\* A preset button is clicked, which the overlay of the wizard does not cover:
\* setWeight(preset.val)
ClickPreset ==
    /\ ~isCreating
    /\ \E k \in DOMAIN profile.presets :
           /\ profile.presets[k].val # weight
           /\ weight' = profile.presets[k].val
    /\ UNCHANGED <<profile, gustFactor, perf, card, gustVars, tafVars, activeVars,
                   fetchVars, appVars>>

\* onChange of the weight slider, a range input from minWeight to maxWeight in
\* steps of 10, moved to its minimum or one step above it:
\* setWeight(parseInt(e.target.value))
MoveWeightSlider ==
    /\ ~isCreating
    /\ LET minWeight == profile.performanceData[1].lbs
           maxWeight == profile.performanceData[Len(profile.performanceData)].lbs
       IN  \E k \in {0, 1} :
              LET value == Plus(minWeight, Whole(10 * k))
              IN  /\ Le(value, maxWeight)
                  /\ value.d = 1 /\ value.n >= 0
                  /\ parseInt(numberToString(value.n)) # weight
                  /\ weight' = parseInt(numberToString(value.n))
    /\ UNCHANGED <<profile, gustFactor, perf, card, gustVars, tafVars, activeVars,
                   fetchVars, appVars>>

NextApp ==
    \/ OpenWizard \/ CloseManager \/ Back
    \/ TypeName \/ TypeRowCount \/ TypeColCount \/ InitNext
    \/ SetRefCol \/ TypeLabel \/ TypeWeight \/ TypeSpeed
    \/ AddConfigCol \/ RemoveConfigCol \/ AddWeightRow \/ RemoveWeightRow
    \/ Finish
    \/ SelectProfile \/ DeleteProfile \/ ClickPreset \/ MoveWeightSlider

SpecApp == InitApp /\ [][NextApp]_vars

----------------------------------------------------------------------------

(* Properties of the interpolator (checked under SpecCalc) *)

data == profile.performanceData

firstSample == data[1]

lastSample == data[Len(data)]

Rendered == perf # NotRendered

\* The weights of the table strictly increase
StrictlyAscending == \A i \in 1..(Len(data) - 1) : Lt(data[i].lbs, data[i + 1].lbs)

\* The speed of sample s for key k, a missing speed counting as 0
speedOf(s, k) == IF k \in DOMAIN s.speeds THEN s.speeds[k] ELSE Whole(0)

\* The first sample (by position) that carries the largest weight of the table
firstOfLargest ==
    data[CHOOSE i \in 1..Len(data) :
            /\ data[i].lbs = lastSample.lbs
            /\ \A j \in 1..(i - 1) : data[j].lbs # lastSample.lbs]

\* The target weight brought into [first weight, last weight]
clamped(w) ==
    IF Lt(w, firstSample.lbs) THEN firstSample.lbs
    ELSE IF Lt(lastSample.lbs, w) THEN lastSample.lbs
    ELSE w

\* The positions i of the pairs of consecutive samples that enclose w
enclosing(w) ==
    {i \in 1..(Len(data) - 1) : Le(data[i].lbs, w) /\ Le(w, data[i + 1].lbs)}

\* The first such position
firstEnclosing(w) == CHOOSE i \in enclosing(w) : \A j \in enclosing(w) : i <= j

C3_LinearBetweenFirstEnclosingPair ==
    (Rendered /\ Len(data) >= 2) =>
        LET w == clamped(weight)
            i == firstEnclosing(w)
            lo == data[i]
            hi == data[i + 1]
        IN  /\ enclosing(w) # {}
            /\ bracket(safeWeight(weight, data), data) = [lower |-> lo, upper |-> hi]
            /\ lo.lbs # hi.lbs =>
                   \A k \in configKeys(profile) :
                       perf.stallSpeed[k] =
                           Plus(speedOf(lo, k),
                                Times(Div(Minus(w, lo.lbs), Minus(hi.lbs, lo.lbs)),
                                      Minus(speedOf(hi, k), speedOf(lo, k))))

\* The calculator has rendered a weight strictly inside the second pair of a
\* three-sample table, for a key that one of the two samples lacks.
C3_Witness ==
    /\ Rendered
    /\ Len(data) = 3
    /\ Lt(data[2].lbs, weight) /\ Lt(weight, data[3].lbs)
    /\ \E k \in configKeys(profile) :
           /\ k \notin DOMAIN data[3].speeds
           /\ k \in DOMAIN data[2].speeds
           /\ perf.stallSpeed[k].d # 1

\* The two samples the result is taken between: the first enclosing pair, or
\* the only sample of a one-sample table
enclosingPair(w) ==
    IF Len(data) = 1
    THEN [lower |-> data[1], upper |-> data[1]]
    ELSE [lower |-> data[firstEnclosing(w)], upper |-> data[firstEnclosing(w) + 1]]

C5_AlwaysADefiniteNumber ==
    Rendered =>
        /\ DOMAIN perf.stallSpeed = configKeys(profile)
        /\ \A k \in configKeys(profile) : IsFinite(perf.stallSpeed[k])

\* The calculator has rendered a table in which every sample has the same
\* weight (so upper.lbs - lower.lbs is 0) and a key that a sample lacks.
C5_Witness ==
    /\ Rendered
    /\ Len(data) >= 2
    /\ firstSample.lbs = lastSample.lbs
    /\ \E k \in configKeys(profile) : k \notin DOMAIN firstSample.speeds
    /\ \A k \in configKeys(profile) : IsFinite(perf.stallSpeed[k])

\* C6: for every configuration of the profile the approach speed equals the
\* interpolated stall speed of that configuration times 1.3 plus half the
\* gust factor.
C6_ApproachSpeed ==
    Rendered =>
        \A k \in configKeys(profile) :
            perf.approachSpeed[k] =
                Plus(Times(interpolate(weight, k, data), Num(13, 10)),
                     Div(gustFactor, Whole(2)))

\* The calculator has rendered a non-zero gust factor at a weight whose stall
\* speed is not a whole number.
C6_Witness ==
    /\ Rendered
    /\ gustFactor # Whole(0)
    /\ \E k \in configKeys(profile) :
           /\ perf.stallSpeed[k].d # 1
           /\ Lt(Whole(0), perf.stallSpeed[k])

\* The clean configuration: the first one whose key includes 'clean', or the
\* first configuration when there is none
cleanConfig ==
    LET n == Len(profile.configs)
    IN  IF \E i \in 1..n : Includes(profile.configs[i].key, "clean")
        THEN profile.configs[CHOOSE i \in 1..n :
                 /\ Includes(profile.configs[i].key, "clean")
                 /\ \A j \in 1..(i - 1) : ~Includes(profile.configs[j].key, "clean")].key
        ELSE profile.configs[1].key

\* The nearest whole number to a finite non-negative a, a half rounding up
nearest(a) == Whole(CHOOSE m \in 0..(a.n + 1) : 2 * m * a.d <= 2 * a.n + a.d
                                             /\ 2 * a.n + a.d < 2 * (m + 1) * a.d)

\* C7, in the specification's words: the maneuvering speed is round(s *
\* dmmsFactor) for the stall speed s of the clean configuration, does not
\* depend on the gust factor, and the reported buffer is the maneuvering
\* speed minus s.
C7_DmmsAndExactBuffer ==
    Rendered =>
        LET s == interpolate(weight, cleanConfig, data)
        IN  /\ card.dmms = nearest(Times(s, profile.dmmsFactor))
            /\ perf.dmms = card.dmms
            /\ card.buffer = Minus(card.dmms, s)

\* C7, as the code has it: the maneuvering speed is round(s * dmmsFactor) for
\* the stall speed s of the clean configuration, does not depend on the gust
\* factor, and the reported buffer is round(maneuvering speed - s).
C7_DmmsAndRoundedBuffer ==
    Rendered =>
        LET s == interpolate(weight, cleanConfig, data)
        IN  /\ card.dmms = nearest(Times(s, profile.dmmsFactor))
            /\ perf.dmms = card.dmms
            /\ perf.buffer = card.buffer
            /\ card.buffer = nearest(Minus(card.dmms, s))

\* The calculator has rendered, with a non-zero gust factor, a profile whose
\* clean configuration is not the first one, at a weight whose clean stall
\* speed is not a whole number.
C7_Witness ==
    /\ Rendered
    /\ gustFactor # Whole(0)
    /\ cleanConfig # profile.configs[1].key
    /\ interpolate(weight, cleanConfig, data).d # 1
    /\ card.buffer # Minus(card.dmms, interpolate(weight, cleanConfig, data))

----------------------------------------------------------------------------
(* Properties of extractGust (checked under SpecGust) *)

GustRun == gust # NotRun

\* A wind group stands in s at position i: three digits or VRB, n2 digits,
\* G, n3 digits, KT
WindGroupAt(s, i, n2, n3) ==
    /\ DigitsAt(s, i, 3) \/ LitAt(s, i, "VRB")
    /\ DigitsAt(s, i + 3, n2)
    /\ LitAt(s, i + 3 + n2, "G")
    /\ DigitsAt(s, i + 4 + n2, n3)
    /\ LitAt(s, i + 4 + n2 + n3, "KT")

WindGroupStarts(s) ==
    {i \in 1..(Len(s) - 9) :
        /\ DigitsAt(s, i + 3, 2)
        /\ \E n2, n3 \in {2, 3} : WindGroupAt(s, i, n2, n3)}

HasWindGroup(s) == WindGroupStarts(s) # {}

\* The digits after G of the first wind group of s
FirstGustDigits(s) ==
    LET starts == WindGroupStarts(s)
        i == CHOOSE x \in starts : \A y \in starts : x <= y
        n == CHOOSE ns \in {2, 3} \X {2, 3} : WindGroupAt(s, i, ns[1], ns[2])
    IN  SubSeq(s, i + 4 + n[1], i + 3 + n[1] + n[2])

\* The base-10 value of two or three digits
Base10(ds) ==
    IF Len(ds) = 2
    THEN 10 * DigitValue(SubSeq(ds, 1, 1)) + DigitValue(SubSeq(ds, 2, 2))
    ELSE 100 * DigitValue(SubSeq(ds, 1, 1)) + 10 * DigitValue(SubSeq(ds, 2, 2))
             + DigitValue(SubSeq(ds, 3, 3))

\* C8: for every text that contains a wind group (three digits or VRB, two or
\* three digits, G, two or three digits, KT) extractGust returns the digits
\* after G of the first such group as a base-10 integer.
C8_GustOfFirstWindGroup ==
    (GustRun /\ HasWindGroup(text)) => gust = Whole(Base10(FirstGustDigits(text)))

\* extractGust has run on a text with two wind groups, the first with a
\* three-digit gust that starts with a zero.
C8_Witness ==
    /\ GustRun
    /\ Cardinality({i \in WindGroupStarts(text) : LitAt(text, i + 5, "G")}) >= 2
    /\ FirstGustDigits(text) = "067"
    /\ gust = Whole(67)

\* C9: extractGust returns null exactly when the text contains no wind group
\* with a gust; a reported gust of zero is returned as the number 0, which is
\* not the null of 'no gust reported'.
C9_NullOnlyWithoutGust ==
    GustRun =>
        LET reported == HasWindGroup(text)
        IN  /\ gust = Null <=> ~reported
            /\ (reported /\ FirstGustDigits(text) \in {"00", "000"}) =>
                   (gust = Whole(0) /\ gust # Null)

\* extractGust has run on a text whose first wind group reports a gust of 00.
C9_Witness ==
    /\ GustRun
    /\ HasWindGroup(text)
    /\ FirstGustDigits(text) = "00"
    /\ gust = Whole(0)

----------------------------------------------------------------------------
(* Properties of parseTaf (checked under SpecTaf) *)

TafParsed == parsedTaf # NotParsed

\* The text parseTaf searches: the page without tags, white space collapsed
searched == cleanTextOf(content)

Occurs(sub, s) == \E i \in 1..Len(s) : LitAt(s, i, sub)

ColonHeaderPresent == Occurs("TAF: " \o stationCode, searched)

SpaceHeaderPresent == Occurs("TAF " \o stationCode, searched)

FourDigitRangeAt(s, i) ==
    /\ DigitsAt(s, i, 4)
    /\ LitAt(s, i + 4, "/")
    /\ DigitsAt(s, i + 5, 4)

ChangeGroupPresent ==
    LET s == searched
    IN  \E i \in 1..Len(s) :
            \/ LitAt(s, i, "FM") /\ DigitsAt(s, i + 2, 6)
            \/ LitAt(s, i, "BECMG ") /\ FourDigitRangeAt(s, i + 6)

nonSpaceCount(s) == Cardinality({i \in 1..Len(s) : ~IsSpace(SubSeq(s, i, i))})

\* C10, in the specification's words: parseTaf returns an empty sequence when
\* the searched text holds neither 'TAF: '+code nor 'TAF '+code nor an FM or
\* BECMG group, and a non-empty one whenever one of them is present and the
\* code has at least one character.
C10_NonEmptyWheneverPresent ==
    TafParsed =>
        /\ (~ColonHeaderPresent /\ ~SpaceHeaderPresent /\ ~ChangeGroupPresent)
              => parsedTaf = <<>>
        /\ ((ColonHeaderPresent \/ SpaceHeaderPresent \/ ChangeGroupPresent)
              /\ Len(stationCode) >= 1)
              => parsedTaf # <<>>

\* C10, as the code has it: parseTaf returns an empty sequence when the
\* searched text holds neither 'TAF: '+code nor 'TAF '+code nor an FM or
\* BECMG group.  The result is non-empty when 'TAF: '+code is present and the
\* code has at least one character; when only 'TAF '+code is present and the
\* code has at least two characters that are not white space; and when
\* neither header is present but an FM or BECMG group is.
C10_EmptyWithoutStartNonEmptyWithLongEnoughHeader ==
    TafParsed =>
        /\ (~ColonHeaderPresent /\ ~SpaceHeaderPresent /\ ~ChangeGroupPresent)
              => parsedTaf = <<>>
        /\ (ColonHeaderPresent /\ Len(stationCode) >= 1)
              => parsedTaf # <<>>
        /\ (~ColonHeaderPresent /\ SpaceHeaderPresent /\ nonSpaceCount(stationCode) >= 2)
              => parsedTaf # <<>>
        /\ (~ColonHeaderPresent /\ ~SpaceHeaderPresent /\ ChangeGroupPresent)
              => parsedTaf # <<>>

\* A page whose only start is 'TAF '+code with a two-character code has been
\* parsed into its header line alone
C10_Witness ==
    /\ TafParsed
    /\ ~ColonHeaderPresent
    /\ SpaceHeaderPresent
    /\ ~ChangeGroupPresent
    /\ nonSpaceCount(stationCode) >= 2
    /\ Len(parsedTaf) = 1
    /\ parsedTaf[1].raw = "TAF " \o stationCode

\* The number written by the two digits of l at the 0-based offsets from0 and
\* from0 + 1
twoDigitsAt(l, from0) ==
    Whole(10 * DigitValue(SubSeq(l, from0 + 1, from0 + 1))
            + DigitValue(SubSeq(l, from0 + 2, from0 + 2)))

\* The entries of the parsed forecast, by their 1-based position
Entries == 1..Len(parsedTaf)

\* C11: every entry is classified by the prefix of its line, in this order: FM
\* gives kind FM with day the two digits at offsets 2-3 and hour those at
\* offsets 4-5; TEMPO gives TEMPO and BECMG gives BECMG, both with day the
\* digits at offsets 6-7 and hour those at offsets 8-9; otherwise a line
\* starting with TAF, or the first line, gives HEADER and anything else BASE,
\* both without day and hour.
C11_ClassifiedByPrefix ==
    TafParsed =>
        \A k \in Entries :
            LET e == parsedTaf[k]
                l == e.raw
            IN  IF LitAt(l, 1, "FM")
                THEN /\ e.type = "FM"
                     /\ DigitsAt(l, 3, 4)
                     /\ e.day = twoDigitsAt(l, 2)
                     /\ e.hour = twoDigitsAt(l, 4)
                ELSE IF LitAt(l, 1, "TEMPO") \/ LitAt(l, 1, "BECMG")
                THEN /\ e.type = SubSeq(l, 1, 5)
                     /\ DigitsAt(l, 7, 4)
                     /\ e.day = twoDigitsAt(l, 6)
                     /\ e.hour = twoDigitsAt(l, 8)
                ELSE /\ e.type = IF LitAt(l, 1, "TAF") \/ k = 1 THEN "HEADER" ELSE "BASE"
                     /\ e.day = Null
                     /\ e.hour = Null

\* A page has been parsed into a header, an FM entry of day 12, hour 18 and a
\* BECMG entry of day 13, hour 0
C11_Witness ==
    /\ TafParsed
    /\ Len(parsedTaf) = 3
    /\ parsedTaf[1].type = "HEADER"
    /\ \E k \in Entries :
          /\ parsedTaf[k].type = "FM"
          /\ parsedTaf[k].day = Whole(12)
          /\ parsedTaf[k].hour = Whole(18)
    /\ \E k \in Entries :
          /\ parsedTaf[k].type = "BECMG"
          /\ parsedTaf[k].day = Whole(13)
          /\ parsedTaf[k].hour = Whole(0)

\* The words that end a forecast
StopWords == {"METAR", "OBSERVATION", "Copyright", "Key to Decoding"}

\* A change group (FM+6 digits or 'BECMG dddd/dddd') stands in s at position i
ChangeGroupAt(s, i) ==
    \/ LitAt(s, i, "FM") /\ DigitsAt(s, i + 2, 6)
    \/ LitAt(s, i, "BECMG ") /\ FourDigitRangeAt(s, i + 6)

\* A group marker stands in s at position i: a change group, 'TEMPO dddd/dddd'
\* or 'PROBdd dddd/dddd'
GroupAt(s, i) ==
    \/ ChangeGroupAt(s, i)
    \/ LitAt(s, i, "TEMPO ") /\ FourDigitRangeAt(s, i + 6)
    \/ /\ LitAt(s, i, "PROB")
       /\ DigitsAt(s, i + 4, 2)
       /\ LitAt(s, i + 6, " ")
       /\ FourDigitRangeAt(s, i + 7)

\* The 1-based position of the first occurrence of sub in s, 0 when there is none
firstOccurrence(sub, s) ==
    LET at == {i \in 1..Len(s) : LitAt(s, i, sub)}
    IN  IF at = {} THEN 0 ELSE CHOOSE i \in at : \A j \in at : i <= j

\* Where the forecast starts in the searched text s (1-based, 0 when nowhere):
\* at 'TAF: '+code, else at 'TAF '+code, else at the first change group
startOf(s, code) ==
    IF Occurs("TAF: " \o code, s) THEN firstOccurrence("TAF: " \o code, s)
    ELSE IF Occurs("TAF " \o code, s) THEN firstOccurrence("TAF " \o code, s)
    ELSE LET at == {i \in 1..Len(s) : ChangeGroupAt(s, i)}
         IN  IF at = {} THEN 0 ELSE CHOOSE i \in at : \A j \in at : i <= j

\* The text from the start on
restOf(s, code) == SubSeq(s, startOf(s, code), Len(s))

\* The positions in the text b, 10 characters or more into it, of a stop word
stopsIn(b) == {i \in 11..Len(b) : \E m \in StopWords : LitAt(b, i, m)}

\* The forecast block: the text from the start on, up to the first such stop word
blockOf(s, code) ==
    LET b == restOf(s, code)
        stops == stopsIn(b)
    IN  IF stops = {} THEN b
        ELSE SubSeq(b, 1, (CHOOSE i \in stops : \A j \in stops : i <= j) - 1)

\* x without the white space at its ends
trimmed(x) ==
    LET inked == {i \in 1..Len(x) : ~IsSpace(SubSeq(x, i, i))}
    IN  IF inked = {} THEN ""
        ELSE SubSeq(x, CHOOSE i \in inked : \A j \in inked : i <= j,
                       CHOOSE i \in inked : \A j \in inked : i >= j)

\* The positions at which the segments of the block b start: its first
\* character and every group marker
segmentStarts(b) == {1} \cup {i \in 1..Len(b) : GroupAt(b, i)}

\* The last segment of the block b
lastSegment(b) ==
    LET starts == segmentStarts(b)
    IN  SubSeq(b, CHOOSE i \in starts : \A j \in starts : i >= j, Len(b))

RECURSIVE rawLengthFrom(_, _)
rawLengthFrom(entries, k) ==
    IF k > Len(entries) THEN 0 ELSE Len(entries[k].raw) + rawLengthFrom(entries, k + 1)

\* C12: the forecast block is cut at the earliest occurrence, searched from
\* 10 characters into the block, of METAR, OBSERVATION, Copyright or Key to
\* Decoding: every returned entry lies in the text before that marker (none
\* holds the marker or text after it), the block reaches exactly up to the
\* marker, and without such a marker it runs to the end of the text.
C12_CutAtEarliestStopWord ==
    TafParsed =>
        LET s == searched
        IN  startOf(s, stationCode) # 0 =>
                LET b == blockOf(s, stationCode)
                    tail == trimmed(lastSegment(b))
                IN  /\ \A k \in Entries : Occurs(parsedTaf[k].raw, b)
                    /\ rawLengthFrom(parsedTaf, 1) <= Len(b)
                    /\ Len(tail) > 5 =>
                          /\ parsedTaf # <<>>
                          /\ parsedTaf[Len(parsedTaf)].raw = tail

\* A page in which a stop word, 10 characters or more into the block, is
\* followed by a group marker has been parsed into the one entry before it
C12_Witness ==
    /\ TafParsed
    /\ LET s == searched
           rest == restOf(s, stationCode)
       IN  /\ startOf(s, stationCode) # 0
           /\ stopsIn(rest) # {}
           /\ \E i \in 1..Len(rest) : GroupAt(rest, i) /\ \E j \in stopsIn(rest) : j < i
    /\ Len(parsedTaf) = 1
    /\ ~Occurs("METAR", parsedTaf[1].raw)

\* The segments of the block b, in their order: each runs from one segment
\* start up to the next
segmentsOf(b) ==
    LET starts == segmentStarts(b)
        n == Cardinality(starts)
        nth(k) == CHOOSE i \in starts : Cardinality({j \in starts : j < i}) = k - 1
    IN  [k \in 1..n |-> SubSeq(b, nth(k), IF k = n THEN Len(b) ELSE nth(k + 1) - 1)]

\* The segments of the block b that are longer than 5 characters once trimmed
keptSegments(b) ==
    LET segments == segmentsOf(b)
        lines == [k \in 1..Len(segments) |-> trimmed(segments[k])]
    IN  SelectSeq(lines, LAMBDA l : Len(l) > 5)

\* C13: a new entry starts at every group marker of the block (FM+6 digits,
\* 'BECMG dddd/dddd', 'TEMPO dddd/dddd', 'PROBdd dddd/dddd'); the entries come
\* in the order of the text; only the segments of 5 characters or less, once
\* trimmed, are dropped; every returned raw text is trimmed and longer than 5
\* characters.
C13_OneEntryPerKeptSegment ==
    TafParsed =>
        LET s == searched
        IN  /\ startOf(s, stationCode) # 0 =>
                  [k \in Entries |-> parsedTaf[k].raw] = keptSegments(blockOf(s, stationCode))
            /\ \A k \in Entries :
                  /\ parsedTaf[k].raw = trimmed(parsedTaf[k].raw)
                  /\ Len(parsedTaf[k].raw) > 5

\* A page whose block starts with a segment of 5 characters, which is dropped,
\* followed by two groups, has been parsed into the two groups in their order
C13_Witness ==
    /\ TafParsed
    /\ LET s == searched
       IN  /\ startOf(s, stationCode) # 0
           /\ LET segments == segmentsOf(blockOf(s, stationCode))
              IN  /\ Len(segments) = 3
                  /\ Len(trimmed(segments[1])) = 5
    /\ Len(parsedTaf) = 2
    /\ parsedTaf[1].raw # parsedTaf[2].raw

\* C14: the block starts at the first occurrence of 'TAF: '+code; only when
\* there is none, at the first occurrence of 'TAF '+code; only when there is
\* none either, at the first FM+6-digit or 'BECMG dddd/dddd' group.  A later
\* 'TAF: '+code wins over an earlier 'TAF '+code or change group.  Nothing
\* before the start is returned, and without a start nothing is returned.
C14_StartByHeaderThenChangeGroup ==
    TafParsed =>
        LET s == searched
            start == startOf(s, stationCode)
        IN  /\ tafStartOf(s, stationCode) = start - 1
            /\ start = 0 => parsedTaf = <<>>
            /\ start # 0 =>
                  /\ \A k \in Entries :
                        \E i \in start..Len(s) : LitAt(s, i, parsedTaf[k].raw)
                  /\ rawLengthFrom(parsedTaf, 1) <= Len(s) - start + 1
                  /\ Len(trimmed(segmentsOf(blockOf(s, stationCode))[1])) > 5 =>
                        LitAt(s, start, parsedTaf[1].raw)

\* A page of a change group, then 'TAF '+code, then 'TAF: '+code has been
\* parsed into the entry of the last of the three
C14_Witness ==
    /\ TafParsed
    /\ LET s == searched
           colon == firstOccurrence("TAF: " \o stationCode, s)
           space == firstOccurrence("TAF " \o stationCode, s)
       IN  /\ space # 0
           /\ space < colon
           /\ \E i \in 1..(space - 1) : ChangeGroupAt(s, i)
    /\ Len(parsedTaf) = 1
    /\ parsedTaf[1].raw = "TAF: " \o stationCode

\* x is the 'no value' result or a whole number of at most digits digits
nullOrNumber(x, digits) ==
    \/ x = Null
    \/ /\ DOMAIN x = {"n", "d"}
       /\ x.d = 1
       /\ x.n >= 0
       /\ x.n < 10 ^ digits

startsWithProb(raw) == LitAt(raw, 1, "PROB") /\ DigitsAt(raw, 5, 2)

\* C30: in every sequence parseTaf returns only the entry at index 0 can be a
\* HEADER, and every entry after the first begins with a group marker: it is
\* an FM, TEMPO or BECMG entry, or a BASE entry whose text starts with PROB
\* and two digits.
C30_HeaderOnlyFirstLaterEntriesStartWithMarker ==
    TafParsed =>
        \A k \in Entries :
            k > 1 =>
                /\ parsedTaf[k].type # "HEADER"
                /\ \/ parsedTaf[k].type = "FM" /\ LitAt(parsedTaf[k].raw, 1, "FM")
                   \/ parsedTaf[k].type = "TEMPO" /\ LitAt(parsedTaf[k].raw, 1, "TEMPO")
                   \/ parsedTaf[k].type = "BECMG" /\ LitAt(parsedTaf[k].raw, 1, "BECMG")
                   \/ parsedTaf[k].type = "BASE" /\ startsWithProb(parsedTaf[k].raw)

\* A page has been parsed into a header followed by a PROB entry of kind BASE
\* and a change group
C30_Witness ==
    /\ TafParsed
    /\ Len(parsedTaf) = 3
    /\ parsedTaf[1].type = "HEADER"
    /\ parsedTaf[2].type = "BASE"
    /\ startsWithProb(parsedTaf[2].raw)
    /\ parsedTaf[3].type \in {"FM", "TEMPO", "BECMG"}

----------------------------------------------------------------------------
(* Properties of the active entry (checked under SpecActive) *)

\* The forecast has been rendered
ActiveRendered == forecast # NotRendered

ActiveKinds == {"FM", "BASE", "HEADER"}

\* The 1-based positions of the candidates of tafData that have started by now
startedCandidates ==
    {k \in 1..Len(tafData) :
        tafData[k].type \in ActiveKinds /\ getEntryDate(tafData[k], now) <= now}

\* C16: the entry marked active is the candidate (kind FM, BASE or HEADER) with the
\* latest start time among the candidates that have started by now, an entry without
\* day and hour having started in the far past; a candidate that started earlier is not
\* chosen over it for standing later in the sequence; none is marked when none started.
C16_LatestStartedCandidateIsActive ==
    ActiveRendered =>
        LET started == startedCandidates
            active == forecast.activeTafIndex + 1
        IN  IF started = {} THEN forecast.activeTafIndex = -1
            ELSE /\ active \in started
                 /\ \A j \in started :
                        getEntryDate(tafData[j], now) <= getEntryDate(tafData[active], now)

\* The months the rollover rule moves an entry of the given day by
monthShift(day, nowT) ==
    IF getUTCDate(nowT) - day > 15 THEN 1
    ELSE IF day - getUTCDate(nowT) > 15 THEN -1
    ELSE 0

\* The start of an entry by the rule alone: its day and hour in the current UTC year
\* and the current UTC month moved by monthShift, the far past without day or hour
ruleDate(entry, nowT) ==
    IF entry.day = Null \/ entry.hour = Null THEN 0
    ELSE DateUTC(getUTCFullYear(nowT), getUTCMonth(nowT) + monthShift(entry.day.n, nowT),
                 entry.day.n, entry.hour.n)

\* The entry has a day of the calendar and an hour of the day
CalendarEntry(entry) ==
    entry.day # Null /\ entry.hour # Null => entry.day.n \in 1..31 /\ entry.hour.n \in 0..23

timedEntries == {k \in 1..Len(tafData) : tafData[k].day # Null /\ tafData[k].hour # Null}

\* C18: the day and hour of an entry become the date of that day and hour in the current
\* UTC year and month, moved one month forward exactly when today's day minus the
\* entry's day is greater than 15, one month back exactly when the entry's day minus
\* today's day is greater than 15, and not moved otherwise; getEntryDate and the
\* displayed local time use the same date.
C18_DateByRolloverRule ==
    ActiveRendered =>
        \A k \in timedEntries :
            /\ getEntryDate(tafData[k], now) = ruleDate(tafData[k], now)
            /\ forecast.localTimes[k] = toLocaleTimeString(ruleDate(tafData[k], now))

----------------------------------------------------------------------------
(* Properties of handleFetch (checked under SpecFetch) *)

\* The call of handleFetch that finished last
lastFetch == finished[Len(finished)]

\* The request of the call f rejected, its response was not ok, or the page it
\* returned does not contain the station code
fetchFailed(f) ==
    \/ f.response.kind \in {"reject", "notOk"}
    \/ ~Occurs(f.code, f.response.contents)

\* C20: a call of handleFetch whose request rejects, returns a response that is not ok
\* or returns a page without the station code ends with the status 'error', loading
\* false, the METAR text and the TAF entries empty, the gust factor as it was, and no
\* further request sent.
C20_FailedFetchEndsInOneErrorState ==
    [][(Len(finished') > Len(finished) /\ fetchFailed(finished'[Len(finished')]))
          => /\ resultStatus' # Null
             /\ resultStatus'.status = "error"
             /\ loading' = FALSE
             /\ metarText' = ""
             /\ tafData' = <<>>
             /\ gustFactor' = gustFactor
             /\ issued' = issued
             /\ pending' = {}]_vars

\* A second fetch has ended on a response that is not ok, after a first one that had
\* set the gust factor to the 25 knots of its METAR
C20_Witness ==
    /\ Len(finished) = 2
    /\ ~fetchFailed(finished[1])
    /\ finished[2].response.kind = "notOk"
    /\ Occurs(finished[2].code, finished[2].response.contents)
    /\ resultStatus = [source |-> "Network", status |-> "error",
                       msg |-> "Proxy network response was not ok"]
    /\ gustFactor = Whole(25)
    /\ pending = {}

\* What the call f of handleFetch displays by itself: the METAR text, the TAF entries,
\* the status and, when it does not fail, the gust factor
shownBy(f) ==
    IF fetchFailed(f)
    THEN [metarText |-> "", tafData |-> <<>>,
          resultStatus |->
              [source |-> "Network", status |-> "error",
               msg |-> IF f.response.kind = "reject" THEN "Failed to fetch"
                       ELSE IF f.response.kind = "notOk"
                       THEN "Proxy network response was not ok"
                       ELSE "Station data not found"]]
    ELSE LET m == metarMatchOf(f.response.contents, f.code)
             g == IF m.found THEN extractGust(trimmed(m.text)) ELSE Null
         IN  [metarText |-> IF m.found THEN trimmed(m.text) ELSE "",
              tafData |-> parseTaf(f.response.contents, f.code),
              resultStatus |->
                  IF ~m.found
                  THEN [source |-> "System", status |-> "warning",
                        msg |-> "No recent METAR found"]
                  ELSE IF g = Null
                  THEN [source |-> "METAR", status |-> "success",
                        msg |-> "METAR active (No Gusts)"]
                  ELSE [source |-> "METAR", status |-> "success",
                        msg |-> "Peak Gust: " \o numberToString(g.n) \o " kts"],
              gustFactor |-> IF g = Null THEN Whole(0) ELSE g]

\* The display is that of the call f alone
ShowsOnly(f) ==
    LET s == shownBy(f)
    IN  /\ metarText = s.metarText
        /\ tafData = s.tafData
        /\ resultStatus = s.resultStatus

beforeForecast(page) ==
    IF IndexOf(page, "TAF", 0) = -1 THEN page
    ELSE Substring(page, 0, IndexOf(page, "TAF", 0))

\* The gust the METAR line of the page reports for the station, 0 when the line
\* reports none or the page holds no METAR line
metarGustOrZero(page, code) ==
    LET line == metarMatchOf(beforeForecast(page), code)
        g == IF line.found THEN extractGust(trimmed(line.text)) ELSE Null
    IN  IF g = Null THEN Whole(0) ELSE g

\* C22: a fetch that succeeds leaves the gust factor at the gust of the METAR line when
\* the METAR reports one and at 0 otherwise (METAR without gust, or no METAR found),
\* whatever it was before; a gust that stands only in the forecast is not applied by
\* the fetch.
C22_FetchSetsGustOfMetarElseZero ==
    [][(Len(finished') > Len(finished) /\ ~fetchFailed(finished'[Len(finished')]))
          => gustFactor' = metarGustOrZero(finished'[Len(finished')].response.contents,
                                           finished'[Len(finished')].code)]_vars

\* C25: the gust factor stays within the range of the gust slider, 0 to 30 knots.
C25_GustWithinSliderRange ==
    /\ Le(Whole(0), gustFactor)
    /\ Le(gustFactor, Whole(30))

----------------------------------------------------------------------------
(* Properties of the profile list and the wizard (checked under SpecApp) *)

\* C21: every profile of the profile list, the built-in one and those the wizard
\* made, has at least one sample, its samples in ascending order of weight (no
\* sample lighter than the one before it), and in every sample a speed for every
\* configuration key of the profile
C21_ProfilesMeetInterpolatorPrecondition ==
    \A k \in DOMAIN profiles :
        LET table == profiles[k].performanceData
        IN  /\ Len(table) >= 1
            /\ \A i \in 1..(Len(table) - 1) : Le(table[i].lbs, table[i + 1].lbs)
            /\ \A i \in DOMAIN table :
                  \A c \in DOMAIN profiles[k].configs :
                      profiles[k].configs[c].key \in DOMAIN table[i].speeds

\* A profile of the wizard is in the list whose rows were entered with the weights
\* 2200, 0 and 2740 from the top, so that Finish moved the second row to the front
C21_Witness ==
    \E k \in DOMAIN profiles :
        /\ startsWith(profiles[k].id, "custom")
        /\ Len(profiles[k].performanceData) = 3
        /\ profiles[k].performanceData[1].lbs = Whole(0)
        /\ profiles[k].performanceData[2].lbs = Whole(2200)
        /\ profiles[k].performanceData[3].lbs = Whole(2740)

\* C23: whenever the active profile changes, the weight is afterwards the value of
\* the first preset with the icon 'Weight' of the new active profile, or 2500 when
\* the profile has no such preset or its value is 0, whatever the weight was before
C23_ActiveProfileChangeResetsWeight ==
    [][activeProfileId' # activeProfileId =>
          \E k \in DOMAIN profiles' :
              /\ profiles'[k].id = activeProfileId'
              /\ \A j \in 1..(k - 1) : profiles'[j].id # activeProfileId'
              /\ LET presets == profiles'[k].presets
                     hits == {i \in DOMAIN presets : presets[i].icon = "Weight"}
                 IN  IF hits = {} \/ presets[Least(hits)].val = Whole(0)
                     THEN weight' = Whole(2500)
                     ELSE weight' = presets[Least(hits)].val]_vars

\* A profile of the wizard with the single weight 0, and so with a 'Max Gross' of 0,
\* is the active one and the weight is 2500
C23_Witness ==
    /\ activeProfileId # MOONEY_M20J.id
    /\ profile.id = activeProfileId
    /\ \E i \in DOMAIN profile.presets :
          profile.presets[i].icon = "Weight" /\ profile.presets[i].val = Whole(0)
    /\ weight = Whole(2500)

\* C24: the weight the calculator is given lies within the table of the active
\* profile, not below the weight of its first sample and not above that of its last
C24_WeightWithinTableRange ==
    /\ Le(profile.performanceData[1].lbs, weight)
    /\ Le(weight, profile.performanceData[Len(profile.performanceData)].lbs)

\* C26: the profile list is never empty, always holds the built-in profile, and the
\* active profile id is the id of a profile of the list; and a step that shortens
\* the list removes exactly one profile, which is not the active one, and leaves
\* the others and the active id as they were
C26_ListKeepsDefaultAndActive ==
    /\ [](/\ Len(profiles) >= 1
          /\ \E k \in DOMAIN profiles : profiles[k] = MOONEY_M20J
          /\ \E k \in DOMAIN profiles : profiles[k].id = activeProfileId)
    /\ [][Len(profiles') < Len(profiles) =>
             \E k \in DOMAIN profiles :
                 /\ profiles[k].id # activeProfileId
                 /\ profiles' = SubSeq(profiles, 1, k - 1)
                                    \o SubSeq(profiles, k + 1, Len(profiles))
                 /\ activeProfileId' = activeProfileId]_vars

\* A profile of the wizard was added and has been deleted again
C26_Witness ==
    /\ Len(refAtFinish) = 1
    /\ \A k \in DOMAIN profiles : profiles[k].id # refAtFinish[1].id
    /\ activeProfileId = MOONEY_M20J.id

\* C27: while a profile made by the wizard is the active one, the DMMS the DMMS card
\* shows is the stall speed, at the weight, of the column that was marked as the
\* reference when Finish was pressed, times the factor of the profile, rounded
C27_DmmsFromReferenceColumn ==
    \A h \in DOMAIN refAtFinish :
        profile.id = refAtFinish[h].id =>
            useAircraftPerformance(weight, Whole(0), profile).dmms =
                MathRound(Times(OrZero(stallSpeedOf(weight, profile), refAtFinish[h].ref),
                                profile.dmmsFactor))

\* C28: in the table step of the wizard the table has at least one weight row and
\* at least one configuration column
C28_TableNeverEmpty ==
    (isCreating /\ wiz.step = "table") => (Len(wiz.rows) >= 1 /\ Len(wiz.cols) >= 1)

\* C29: in the table step of the wizard exactly one column is marked as the
\* reference and every row has one speed cell for each column
C29_OneReferenceAndOneCellPerColumn ==
    (isCreating /\ wiz.step = "table") =>
        /\ Cardinality({c \in DOMAIN wiz.cols : wiz.cols[c].isRef}) = 1
        /\ \A r \in DOMAIN wiz.rows : Len(wiz.rows[r].speeds) = Len(wiz.cols)

====
